---- MODULE Spec2Model ----
(***************************************************************************)
(* Model of the PMTiles contour server (src/server.js): the tile request   *)
(* handler with its 3x3 neighbour fetch, stitchTiles, generateContours,    *)
(* clipContoursToTile and encodeMVT, and the pure helpers they use.        *)
(*                                                                         *)
(* Numbers.  Elevations are float64 in the code.  Here an elevation is an  *)
(* exact rational kept as an integer numerator over the denominator of its *)
(* encoding (Scale: 256 for terrarium, 10 for mapbox), so that b/256 and   *)
(* n*0.1 are not truncated.  Thresholds are integers: CONTOUR_INTERVAL is  *)
(* the result of parseInt, and Math.ceil(..) * minInterval and             *)
(* ele += minInterval stay integral.                                       *)
(***************************************************************************)
EXTENDS Integers, Sequences, FiniteSets, TLC

VARIABLES
    tilesets,         \* registry: the names loaded at startup (server.js:106)
    fileHandle,       \* FileSource.fileHandle of every tileset (server.js:74)
    opens,            \* the number of files opened so far (server.js:83)
    requests,         \* the handlers of concurrent requests and their locals
    cfg,              \* ENCODING, CONTOUR_INTERVAL, MAJOR_INTERVAL (server.js:38-40)
    world,            \* the raster source: tile size and which addresses decode
    req,              \* the request parameters (server.js:483-486)
    pc,               \* position of the handler / of the function call
    tiles,            \* fetchTileWithBuffer: tiles (server.js:260)
    positions,        \* fetchTileWithBuffer: positions (server.js:261)
    lastFetch,        \* outcome of the most recent neighbour fetch
    fetched,          \* the addresses getZxy was called with, in order (server.js:270)
    stitched,         \* handler: stitched (server.js:505)
    contourFeatures,  \* handler: contourFeatures (server.js:512)
    clippedFeatures,  \* handler: clippedFeatures (server.js:522)
    mvtBuffer,        \* handler: mvtBuffer (server.js:530)
    ran,              \* the pipeline stages the handler has run
    res,              \* the responses sent, in order
    call              \* a direct call of one function: fn, args, ret

vars == <<tilesets, fileHandle, opens, requests, cfg, world, req, pc, tiles, positions, lastFetch, fetched, stitched,
          contourFeatures, clippedFeatures, mvtBuffer, ran, res, call>>

handlerVars == <<tilesets, fileHandle, opens, requests, cfg, world, req, tiles, positions, lastFetch, fetched, stitched,
                 contourFeatures, clippedFeatures, mvtBuffer, ran, res>>

(***************************************************************************)
(* Bounds of the model.                                                    *)
(***************************************************************************)
MaxTileSize == 2      \* tile width and height range over 1..MaxTileSize
MaxCoord == 1         \* request x and y range over 0..MaxCoord
MaxMeters == 2        \* sample elevations range over -MaxMeters..MaxMeters (+ 0.5)
MaxInterval == 3      \* minor and major intervals range over 1..MaxInterval
MaxBuffer == 2        \* clipContoursToTile's buffer ranges over 1..MaxBuffer
MaxPolygons == 2      \* polygons per sample contour level
MaxThresholds == 6    \* iterations of the threshold loop that are followed

(***************************************************************************)
(* Small helpers.                                                          *)
(***************************************************************************)
Min2(a, b) == IF a <= b THEN a ELSE b

Abs(a) == IF a < 0 THEN -a ELSE a

SetMin(S) == CHOOSE m \in S : \A n \in S : m <= n

SetMax(S) == CHOOSE m \in S : \A n \in S : n <= m

\* JavaScript null, and the value a variable holds before it is assigned.
null == [isNull |-> TRUE]

\* The 9 offsets in the order of the two loops of fetchTileWithBuffer:
\* dy outer, dx inner.
OffsetAt(k) == [x |-> ((k - 1) % 3) - 1, y |-> ((k - 1) \div 3) - 1]

Offsets == {OffsetAt(k) : k \in 1..9}

\* The positions array fetchTileWithBuffer returns (server.js:275-282).
PositionsOf == [k \in 1..9 |-> OffsetAt(k)]

(***************************************************************************)
(* Pixels.  A pixel is <<r, g, b, a>>; image data is a function from the   *)
(* pixel index (byte index / 4) to a pixel.                                *)
(***************************************************************************)
SentinelPixel == <<128, 128, 128, 255>>

\* What a Uint8ClampedArray element becomes when it is assigned the
\* undefined of an out-of-range read.
UndefinedPixel == <<0, 0, 0, 0>>

\* The decoded content of the raster source: every tile address and pixel
\* position has its own colour, so a misplaced pixel is visible.  The red
\* byte numbers the address, the green and blue bytes the pixel position.
TilePixel(X, Y, px, py) ==
    <<128 + (X + 2) + (MaxCoord + 5) * (Y + 2), 16 * px, py, 255>>

\* decodeImage's result for the tile at address (X, Y), tagged with the
\* offset it was fetched for.
DecodedTile(X, Y, W, H, dx, dy) ==
    [data   |-> [p \in 0..(W * H - 1) |-> TilePixel(X, Y, p % W, p \div W)],
     width  |-> W,
     height |-> H,
     x      |-> dx,
     y      |-> dy]

(***************************************************************************)
(* stitchTiles (server.js:291-379).                                        *)
(***************************************************************************)
\* The copy of one tile into the temporary buffer (server.js:337-353).  A
\* write past the end of the typed array is ignored.
CopyTile(tile, pos, tileWidth, tileHeight, stitchedWidth, stitchedData) ==
    LET offsetX == (pos.x + 1) * tileWidth
        offsetY == (pos.y + 1) * tileHeight
        Src(p) == {s \in 0..(tile.width * tile.height - 1) :
                     (offsetY + s \div tile.width) * stitchedWidth
                       + offsetX + (s % tile.width) = p}
    IN  [p \in DOMAIN stitchedData |->
           IF Src(p) # {} THEN tile.data[SetMax(Src(p))] ELSE stitchedData[p]]

RECURSIVE CopyTiles(_, _, _, _, _, _, _)
CopyTiles(i, tls, poss, tileWidth, tileHeight, stitchedWidth, stitchedData) ==
    IF i > Len(tls) THEN stitchedData
    ELSE IF tls[i] = null
         THEN CopyTiles(i + 1, tls, poss, tileWidth, tileHeight, stitchedWidth,
                        stitchedData)
         ELSE CopyTiles(i + 1, tls, poss, tileWidth, tileHeight, stitchedWidth,
                        CopyTile(tls[i], poss[i], tileWidth, tileHeight,
                                 stitchedWidth, stitchedData))

stitchTiles(tls, poss, bufferPixels) ==
    LET valid == {i \in 1..Len(tls) : tls[i] # null}
    IN  IF valid = {} THEN null
        ELSE
        LET validTile == tls[SetMin(valid)]
            tileWidth == validTile.width
            tileHeight == validTile.height
            extractWidth == tileWidth + bufferPixels * 2
            extractHeight == tileHeight + bufferPixels * 2
            stitchedWidth == tileWidth * 3
            srcMinX == tileWidth - bufferPixels
            srcMinY == tileHeight - bufferPixels
            \* new Uint8ClampedArray(stitchedWidth * stitchedWidth * 4)
            filled == [p \in 0..(stitchedWidth * stitchedWidth - 1) |-> SentinelPixel]
            stitchedData == CopyTiles(1, tls, poss, tileWidth, tileHeight,
                                      stitchedWidth, filled)
            Extract(q) ==
                LET srcX == srcMinX + (q % extractWidth)
                    srcY == srcMinY + (q \div extractWidth)
                    srcIdx == srcY * stitchedWidth + srcX
                IN  IF srcIdx \in DOMAIN stitchedData
                    THEN stitchedData[srcIdx] ELSE UndefinedPixel
        IN  [data       |-> [q \in 0..(extractWidth * extractHeight - 1) |-> Extract(q)],
             width      |-> extractWidth,
             height     |-> extractHeight,
             tileWidth  |-> tileWidth,
             tileHeight |-> tileHeight,
             buffer     |-> bufferPixels]

(***************************************************************************)
(* decodeElevation (server.js:123-130).  The result is the numerator of    *)
(* the elevation over Scale(encoding).                                     *)
(***************************************************************************)
KnownEncoding(encoding) == encoding \in {"terrarium", "mapbox"}

\* The denominator of the elevations of an encoding: b / 256, n * 0.1.
Scale(encoding) == IF encoding = "terrarium" THEN 256 ELSE 10

\* Mutant of decodeElevation: integer arithmetic, the fraction is truncated.
decodeElevationTruncated(r, g, b, encoding) ==
    IF encoding = "terrarium"
    THEN (r * 256 + g - 32768) * 256
    ELSE -10000 * 10 + ((r * 256 * 256 + g * 256 + b) \div 10) * 10

\* Defined for the known encodings; for any other the code throws
\* (server.js:129), which the callers model with KnownEncoding.
decodeElevation(r, g, b, encoding) ==
    IF encoding = "terrarium"
    THEN (r * 256 + g - 32768) * 256 + b
    ELSE -10000 * 10 + (r * 256 * 256 + g * 256 + b)

(***************************************************************************)
(* generateContours (server.js:133-176).                                   *)
(***************************************************************************)
\* Math.ceil(n / d) for an integer numerator and a positive denominator.
CeilDiv(n, d) == -((-n) \div d)

\* Mutant of MinorStart: Math.floor in place of Math.ceil.
MinorStartFloor(minE, S, minInterval) == (minE \div (S * minInterval)) * minInterval

\* minorStart (server.js:156) for an elevation minE / S and an interval.
MinorStart(minE, S, minInterval) == CeilDiv(minE, S * minInterval) * minInterval

\* Mutant of ThresholdLoop: the loop condition is ele < maxEle.
ThresholdLoopStrict(ele, maxE, S, minInterval) ==
    LET n == IF ele * S < maxE
             THEN (maxE - 1 - ele * S) \div (S * minInterval) + 1 ELSE 0
    IN  [k \in 1..n |-> ele + (k - 1) * minInterval]

\* The threshold loop (server.js:159-161) for a positive interval: the k-th
\* iteration pushes ele + (k - 1) * minInterval, and the loop runs as long as
\* that value is <= maxE / S, which is n times.
ThresholdLoop(ele, maxE, S, minInterval) ==
    LET n == IF ele * S <= maxE THEN (maxE - ele * S) \div (S * minInterval) + 1 ELSE 0
    IN  [k \in 1..n |-> ele + (k - 1) * minInterval]

\* The thresholds of an elevation range [minE / S, maxE / S]
\* (server.js:154-161), for a positive interval.
PlanThresholds(minE, maxE, S, minInterval) ==
    ThresholdLoop(MinorStart(minE, S, minInterval), maxE, S, minInterval)

\* JavaScript's a % b on integers, b # 0: the sign of the dividend.
JsRem(a, b) == IF a < 0 THEN -((-a) % Abs(b)) ELSE a % Abs(b)

\* Mutant of IsMajor: Math.abs is missing.
IsMajorNoAbs(value, majorInterval) ==
    majorInterval # 0 /\ JsRem(value, majorInterval) * 100 < 1

\* isMajor (server.js:174): Math.abs(value % majorInterval) < 0.01, in
\* hundredths.  value % 0 is NaN and compares false.
IsMajor(value, majorInterval) ==
    majorInterval # 0 /\ Abs(JsRem(value, majorInterval)) * 100 < 1

\* d3-contour's contours().size([width, height]).thresholds(thresholds)
\* (server.js:164-168): one MultiPolygon per threshold, in threshold order,
\* whose coordinates are empty when no cell reaches the threshold.  The
\* geometry of the library is abstracted: the region of the cells >= value
\* is outlined by one closed ring around its bounding box.
D3Contours(elevations, width, height, S, thresholds) ==
    [k \in 1..Len(thresholds) |->
       LET value == thresholds[k]
           inside == {q \in DOMAIN elevations : elevations[q] >= value * S}
           xs == {q % width : q \in inside}
           ys == {q \div width : q \in inside}
       IN  [type        |-> "MultiPolygon",
            value       |-> value,
            coordinates |->
              IF inside = {} THEN <<>>
              ELSE << << << <<SetMin(xs), SetMin(ys)>>,
                            <<SetMax(xs) + 1, SetMin(ys)>>,
                            <<SetMax(xs) + 1, SetMax(ys) + 1>>,
                            <<SetMin(xs), SetMax(ys) + 1>>,
                            <<SetMin(xs), SetMin(ys)>> >> >> >>]]

\* The elevation of every pixel (server.js:139-150).
ElevationsOf(imageData, width, height, encoding) ==
    [i \in 0..(width * height - 1) |->
       decodeElevation(imageData[i][1], imageData[i][2], imageData[i][3], encoding)]

\* For a known encoding and at least one pixel.
generateContours(imageData, width, height, encoding, minInterval, majorInterval) ==
    LET elevations == ElevationsOf(imageData, width, height, encoding)
        minEle == SetMin({elevations[i] : i \in DOMAIN elevations})
        maxEle == SetMax({elevations[i] : i \in DOMAIN elevations})
        thresholds == PlanThresholds(minEle, maxEle, Scale(encoding), minInterval)
        contourFeatures0 == D3Contours(elevations, width, height, Scale(encoding),
                                       thresholds)
    IN  [k \in 1..Len(contourFeatures0) |->
           [type        |-> contourFeatures0[k].type,
            value       |-> contourFeatures0[k].value,
            coordinates |-> contourFeatures0[k].coordinates,
            isMajor     |-> IsMajor(contourFeatures0[k].value, majorInterval)]]

(***************************************************************************)
(* clipContoursToTile (server.js:382-430).                                 *)
(***************************************************************************)
\* Concatenation of a sequence of sequences.
RECURSIVE Flatten(_)
Flatten(ss) ==
    IF Len(ss) = 0 THEN <<>>
    ELSE IF Len(ss) = 1 THEN ss[1]
    ELSE Flatten(SubSeq(ss, 1, Len(ss) \div 2))
           \o Flatten(SubSeq(ss, Len(ss) \div 2 + 1, Len(ss)))

\* Mutant of ClipRing: translated coordinates are clamped at 0.
ClipRingClamped(ring, buffer) ==
    LET Clamp(v) == IF v < 0 THEN 0 ELSE v
        Translate(pt) == <<Clamp(pt[1] - buffer), Clamp(pt[2] - buffer)>>
    IN  [k \in 1..Len(ring) |-> Translate(ring[k])]

\* server.js:400-408
ClipRing(ring, buffer) ==
    LET Translate(pt) == <<pt[1] - buffer, pt[2] - buffer>>
    IN  [k \in 1..Len(ring) |-> Translate(ring[k])]

\* Mutant of ClipPolygon: the filter of server.js:410 is missing.
ClipPolygonKeepsAll(polygon, buffer) ==
    [k \in 1..Len(polygon) |-> ClipRing(polygon[k], buffer)]

\* server.js:397-414
ClipPolygon(polygon, buffer) ==
    LET Clip(ring) == ClipRing(ring, buffer)
        KeepRing(clippedRing) == Len(clippedRing) > 1
    IN  SelectSeq([k \in 1..Len(polygon) |-> Clip(polygon[k])], KeepRing)

\* server.js:394-419
ClipCoordinates(coordinates, buffer) ==
    LET Clip(polygon) == ClipPolygon(polygon, buffer)
        KeepPolygon(clippedPolygon) == Len(clippedPolygon) > 0
    IN  SelectSeq([k \in 1..Len(coordinates) |-> Clip(coordinates[k])], KeepPolygon)

clipContoursToTile(features, tileWidth, tileHeight, buffer) ==
    LET HasCoordinates(feature) == Len(feature.coordinates) # 0
        Clip(feature) ==
            [feature EXCEPT !.coordinates = ClipCoordinates(feature.coordinates, buffer)]
        KeepFeature(clipped) == Len(clipped.coordinates) > 0
        nonEmpty == SelectSeq(features, HasCoordinates)
    IN  SelectSeq([k \in 1..Len(nonEmpty) |-> Clip(nonEmpty[k])], KeepFeature)

(***************************************************************************)
(* encodeMVT (server.js:189-250).                                          *)
(***************************************************************************)
extent == 4096

\* Mutant of RoundDiv: Math.floor in place of Math.round.
RoundDivFloor(n, d) == n \div d

\* Math.round(n / d) for d > 0: halves round towards +Infinity.
RoundDiv(n, d) == (2 * n + d) \div (2 * d)

\* The features of one contour level (server.js:196-218).
FeaturesOfContour(contour, width, height) ==
    LET Scaled(pt) == <<RoundDiv(pt[1] * extent, width), RoundDiv(pt[2] * extent, height)>>
        FeatureOf(ring) ==
            [geometry |-> <<[k \in 1..Len(ring) |-> Scaled(ring[k])]>>,
             type     |-> 2,
             tags     |-> [ele |-> RoundDiv(contour.value, 1),
                           level |-> IF contour.isMajor THEN 1 ELSE 0]]
        LongEnough(ring) == Len(ring) > 1
        OfPolygon(polygon) ==
            LET rings == SelectSeq(polygon, LongEnough)
            IN  [k \in 1..Len(rings) |-> FeatureOf(rings[k])]
    IN  Flatten([k \in 1..Len(contour.coordinates) |-> OfPolygon(contour.coordinates[k])])

\* The length of the buffer vtpbf.fromGeojsonVt({ contours: tile }, { version: 2 })
\* returns (server.js:241): the layer message with its version, name and
\* extent fields is written whether or not the layer has features.
FeatureBytes(features) ==
    LET Points(feature) == feature.geometry[1]
    IN  8 * Len(features) + 2 * Len(Flatten([k \in 1..Len(features) |-> Points(features[k])]))

encodeMVT(features, width, height, z, x, y) ==
    LET OfContour(contour) == FeaturesOfContour(contour, width, height)
        HasCoordinates(contour) == Len(contour.coordinates) # 0
        nonEmpty == SelectSeq(features, HasCoordinates)
        out == Flatten([k \in 1..Len(nonEmpty) |-> OfContour(nonEmpty[k])])
    IN  [layer    |-> "contours",
         version  |-> 2,
         extent   |-> extent,
         features |-> out,
         x        |-> x,
         y        |-> y,
         z        |-> z,
         length   |-> 17 + FeatureBytes(out)]

(***************************************************************************)
(* The tile request handler (server.js:481-545) with fetchTileWithBuffer   *)
(* (server.js:259-288).                                                    *)
(***************************************************************************)
\* The tile addresses the model's raster source is described over.
Region == {<<X, Y>> : X \in (-2)..(MaxCoord + 2), Y \in (-2)..(MaxCoord + 2)}

Neighbourhood(x, y) == {<<x + o.x, y + o.y>> : o \in Offsets}

\* The sets of addresses that decode, for a request at (x, y): everything,
\* nothing, all but one neighbour, or one neighbour alone.
PresentSets(x, y) ==
    {Region, {}}
      \cup {Region \ {a} : a \in Neighbourhood(x, y)}
      \cup {{a} : a \in Neighbourhood(x, y)}

\* The configurations of the process (server.js:38-40).
Configs ==
    {[ENCODING |-> "terrarium", CONTOUR_INTERVAL |-> 1000, MAJOR_INTERVAL |-> 5000],
     [ENCODING |-> "terrarium", CONTOUR_INTERVAL |-> 5000, MAJOR_INTERVAL |-> 10000],
     [ENCODING |-> "mapbox", CONTOUR_INTERVAL |-> 20000, MAJOR_INTERVAL |-> 100000],
     [ENCODING |-> "bogus", CONTOUR_INTERVAL |-> 10, MAJOR_INTERVAL |-> 50],
     [ENCODING |-> "terrarium", CONTOUR_INTERVAL |-> -1000, MAJOR_INTERVAL |-> 5000]}

Init ==
    /\ tilesets = {"dem"}
    /\ fileHandle = [t \in tilesets |-> null]
    /\ opens = 0
    /\ requests = <<>>
    /\ cfg \in Configs
    /\ req \in [tileset : {"dem", "nope"}, z : {1}, x : 0..MaxCoord, y : 0..MaxCoord]
    /\ \E W \in 1..MaxTileSize, H \in 1..MaxTileSize, P \in PresentSets(req.x, req.y) :
         world = [width |-> W, height |-> H, present |-> P]
    /\ pc = "start"
    /\ tiles = <<>>
    /\ positions = <<>>
    /\ lastFetch = "none"
    /\ fetched = <<>>
    /\ stitched = null
    /\ contourFeatures = <<>>
    /\ clippedFeatures = <<>>
    /\ mvtBuffer = null
    /\ ran = {}
    /\ res = <<>>
    /\ call = [fn |-> "none", args |-> null, ret |-> null]

\* The handle of the n-th file opened.
Handle(n) == [isNull |-> FALSE, fd |-> n]

\* FileSource.getBytes (server.js:81-102) as far as it changes the source:
\* the file of tileset t is opened when no handle is stored, and the handle
\* is stored.
GetBytes(t) ==
    IF fileHandle[t] = null THEN [fileHandle EXCEPT ![t] = Handle(opens + 1)]
    ELSE fileHandle

\* The stored handles after a library call with the given outcome: a call
\* that throws may have failed before or after the file was opened.
GetBytesAfter(t, outcome) ==
    IF outcome = "getZxyThrew" THEN {fileHandle, GetBytes(t)} ELSE {GetBytes(t)}

\* The number of files opened, given the stored handles after the call.
OpensAfter(handles) == IF handles = fileHandle THEN opens ELSE opens + 1

\* server.js:483-498: the lookup of the tileset.
StartRequest ==
    /\ pc = "start"
    /\ IF req.tileset \in tilesets
       THEN pc' = "fetch" /\ res' = res
       ELSE /\ pc' = "done"
            /\ res' = Append(res, [status |-> 404, body |-> "Tileset not found",
                                   contentType |-> "application/json"])
    /\ UNCHANGED <<tilesets, fileHandle, opens, requests, cfg, world, req, tiles,
                   positions, lastFetch, fetched, stitched, contourFeatures,
                   clippedFeatures, mvtBuffer, ran, call>>

\* Mutant of NextOffset: dx is the outer loop and dy the inner one.
NextOffsetTransposed == [x |-> OffsetAt(Len(tiles) + 1).y, y |-> OffsetAt(Len(tiles) + 1).x]

\* The offset of the next iteration of the two loops (server.js:264-267).
NextOffset == OffsetAt(Len(tiles) + 1)

NextAddress == <<req.x + NextOffset.x, req.y + NextOffset.y>>

\* The arguments of the getZxy call of the iteration (server.js:268-270).
NextCall == [z |-> req.z, x |-> NextAddress[1], y |-> NextAddress[2]]

\* server.js:270-275: getZxy returns the tile and decodeImage decodes it.
FetchTileFound ==
    /\ pc = "fetch"
    /\ Len(tiles) < 9
    /\ NextAddress \in world.present
    /\ tiles' = Append(tiles, DecodedTile(NextAddress[1], NextAddress[2], world.width,
                                          world.height, NextOffset.x, NextOffset.y))
    /\ positions' = Append(positions, NextOffset)
    /\ lastFetch' = "found"
    /\ fetched' = Append(fetched, NextCall)
    /\ fileHandle' = GetBytes(req.tileset)
    /\ opens' = OpensAfter(fileHandle')
    /\ UNCHANGED <<tilesets, requests, cfg, world, req, pc, stitched, contourFeatures,
                   clippedFeatures, mvtBuffer, ran, res, call>>

\* Mutant of FetchTileMissing: the exception of getZxy or decodeImage is not
\* caught in the loop and reaches the handler's catch.
FetchTileMissingAborts ==
    /\ pc = "fetch"
    /\ Len(tiles) < 9
    /\ NextAddress \notin world.present
    /\ \/ /\ lastFetch' = "notFound"
          /\ tiles' = Append(tiles, null)
          /\ positions' = Append(positions, NextOffset)
          /\ UNCHANGED <<pc, res>>
       \/ /\ lastFetch' \in {"getZxyThrew", "decodeImageThrew"}
          /\ pc' = "done"
          /\ res' = Append(res, [status |-> 500, body |-> "Internal server error",
                                 contentType |-> "text/html"])
          /\ UNCHANGED <<tiles, positions>>
    /\ fetched' = Append(fetched, NextCall)
    /\ fileHandle' \in GetBytesAfter(req.tileset, lastFetch')
    /\ opens' = OpensAfter(fileHandle')
    /\ UNCHANGED <<tilesets, requests, cfg, world, req, stitched, contourFeatures,
                   clippedFeatures, mvtBuffer, ran, call>>

\* server.js:276-283: getZxy returns nothing, or getZxy or decodeImage throws.
FetchTileMissing ==
    /\ pc = "fetch"
    /\ Len(tiles) < 9
    /\ NextAddress \notin world.present
    /\ tiles' = Append(tiles, null)
    /\ positions' = Append(positions, NextOffset)
    /\ lastFetch' \in {"notFound", "getZxyThrew", "decodeImageThrew"}
    /\ fetched' = Append(fetched, NextCall)
    /\ fileHandle' \in GetBytesAfter(req.tileset, lastFetch')
    /\ opens' = OpensAfter(fileHandle')
    /\ UNCHANGED <<tilesets, requests, cfg, world, req, pc, stitched, contourFeatures,
                   clippedFeatures, mvtBuffer, ran, res, call>>

\* The tiles array fetchTileWithBuffer returns for a request at (x, y)
\* (server.js:259-288): the decoded tile where the address decodes, null
\* where it does not.
FetchedTiles(x, y) ==
    [k \in 1..9 |->
       IF <<x + OffsetAt(k).x, y + OffsetAt(k).y>> \in world.present
       THEN DecodedTile(x + OffsetAt(k).x, y + OffsetAt(k).y, world.width, world.height,
                        OffsetAt(k).x, OffsetAt(k).y)
       ELSE null]

\* server.js:507-509
NotFoundOutcome(st) ==
    [stitched |-> st, contourFeatures |-> <<>>, clippedFeatures |-> <<>>,
     mvtBuffer |-> null, ran |-> {"stitchTiles"},
     res |-> [status |-> 404, body |-> "Tile not found", contentType |-> "text/html"]]

\* Mutant of ErrorOutcome: the exception is answered like a missing tile.
ErrorOutcomeAsNotFound(st) ==
    [stitched |-> st, contourFeatures |-> <<>>, clippedFeatures |-> <<>>,
     mvtBuffer |-> null, ran |-> {"stitchTiles", "generateContours"},
     res |-> [status |-> 404, body |-> "Tile not found", contentType |-> "text/html"]]

\* server.js:541-544: an exception of generateContours reaches the catch.
ErrorOutcome(st) ==
    [stitched |-> st, contourFeatures |-> <<>>, clippedFeatures |-> <<>>,
     mvtBuffer |-> null, ran |-> {"stitchTiles", "generateContours"},
     res |-> [status |-> 500, body |-> "Internal server error",
              contentType |-> "text/html"]]

\* Mutant of TileOutcome: res.set('Content-Type', ...) is missing, and the
\* Buffer is sent with the default type.
TileOutcomeDefaultType(st) ==
    LET cf == generateContours(st.data, st.width, st.height, cfg.ENCODING,
                               cfg.CONTOUR_INTERVAL, cfg.MAJOR_INTERVAL)
        cl == clipContoursToTile(cf, st.tileWidth, st.tileHeight, st.buffer)
        mvt == encodeMVT(cl, st.tileWidth, st.tileHeight, req.z, req.x, req.y)
    IN  [stitched |-> st, contourFeatures |-> cf, clippedFeatures |-> cl,
         mvtBuffer |-> mvt,
         ran |-> {"stitchTiles", "generateContours", "clipContoursToTile", "encodeMVT"},
         res |-> IF mvt.length = 0
                 THEN [status |-> 204, body |-> "", contentType |-> "none"]
                 ELSE [status |-> 200, body |-> "mvtBuffer",
                       contentType |-> "application/octet-stream"]]

\* server.js:511-539
TileOutcome(st) ==
    LET cf == generateContours(st.data, st.width, st.height, cfg.ENCODING,
                               cfg.CONTOUR_INTERVAL, cfg.MAJOR_INTERVAL)
        cl == clipContoursToTile(cf, st.tileWidth, st.tileHeight, st.buffer)
        mvt == encodeMVT(cl, st.tileWidth, st.tileHeight, req.z, req.x, req.y)
    IN  [stitched |-> st, contourFeatures |-> cf, clippedFeatures |-> cl,
         mvtBuffer |-> mvt,
         ran |-> {"stitchTiles", "generateContours", "clipContoursToTile", "encodeMVT"},
         res |-> IF mvt.length = 0
                 THEN [status |-> 204, body |-> "", contentType |-> "none"]
                 ELSE [status |-> 200, body |-> "mvtBuffer",
                       contentType |-> "application/x-protobuf"]]

\* server.js:159-161 under a negative CONTOUR_INTERVAL: ele starts at or
\* below minEle and decreases, ele <= maxEle stays true, and the loop of
\* generateContours never ends.  The turn of the handler never completes
\* and no response is sent.
LoopOutcome(st) ==
    [stitched |-> st, contourFeatures |-> <<>>, clippedFeatures |-> <<>>,
     mvtBuffer |-> null, ran |-> {"stitchTiles", "generateContours"},
     res |-> null]

\* Mutant of ProcessOutcome: the check of server.js:507 is missing, and the
\* read of stitched.data throws on null.
ProcessOutcomeNoNullCheck ==
    LET st == stitchTiles(tiles, positions, 1)
    IN  IF st = null \/ ~KnownEncoding(cfg.ENCODING)
        THEN ErrorOutcome(st)
        ELSE IF cfg.CONTOUR_INTERVAL < 0 THEN LoopOutcome(st)
        ELSE TileOutcome(st)

\* server.js:503-544: everything after the await of fetchTileWithBuffer runs
\* in one turn of the event loop.  The result is the handler's locals, the
\* stages it reached and the response it sends.
ProcessOutcome ==
    LET st == stitchTiles(tiles, positions, 1)
    IN  IF st = null THEN NotFoundOutcome(st)
        ELSE IF ~KnownEncoding(cfg.ENCODING) THEN ErrorOutcome(st)
        ELSE IF cfg.CONTOUR_INTERVAL < 0 THEN LoopOutcome(st)
        ELSE TileOutcome(st)

ProcessTile ==
    /\ pc = "fetch"
    /\ Len(tiles) = 9
    /\ \E o \in {ProcessOutcome} :
         /\ stitched' = o.stitched
         /\ contourFeatures' = o.contourFeatures
         /\ clippedFeatures' = o.clippedFeatures
         /\ mvtBuffer' = o.mvtBuffer
         /\ ran' = o.ran
         /\ res' = IF o.res = null THEN res ELSE Append(res, o.res)
         /\ pc' = IF o.res = null THEN "generateContours" ELSE "done"
    /\ UNCHANGED <<tilesets, fileHandle, opens, requests, cfg, world, req, tiles,
                   positions, lastFetch, fetched, call>>

Next == StartRequest \/ FetchTileFound \/ FetchTileMissing \/ ProcessTile

Spec == Init /\ [][Next]_vars

(***************************************************************************)
(* Claims about the handler, checked under Spec.                           *)
(***************************************************************************)
KnownTileset == req.tileset \in tilesets

AllNeighboursMissing == Neighbourhood(req.x, req.y) \cap world.present = {}

\* C2: when every one of the 9 neighbour fetches ends as missing, the
\* request is answered 404 'Tile not found' and nothing else: no 500, and
\* neither generateContours nor encodeMVT runs.
C2_AllMissingIsNotFound ==
    (KnownTileset /\ AllNeighboursMissing) =>
        /\ \A k \in 1..Len(res) : res[k].status # 500
        /\ "generateContours" \notin ran
        /\ "encodeMVT" \notin ran
        /\ pc = "done" =>
             /\ Len(tiles) = 9
             /\ stitched = null
             /\ res = <<[status |-> 404, body |-> "Tile not found",
                         contentType |-> "text/html"]>>

C2_Witness ==
    /\ pc = "done" /\ KnownTileset /\ AllNeighboursMissing
    /\ lastFetch = "decodeImageThrew"
    /\ cfg.ENCODING = "bogus"
    /\ Len(res) = 1

\* C3: a neighbour fetch that ends as not found, or with an exception of
\* getZxy or decodeImage, records null for that offset only: the tiles
\* recorded before stay as they are, no response is sent, and the loop goes
\* on to the next offset; a fetch that succeeds records the decoded tile.
C3_FetchFailureIsLocal ==
    [][(pc = "fetch" /\ Len(tiles) < 9) =>
         /\ pc' = "fetch"
         /\ res' = res
         /\ Len(tiles') = Len(tiles) + 1
         /\ SubSeq(tiles', 1, Len(tiles)) = tiles
         /\ positions' = Append(positions, OffsetAt(Len(tiles) + 1))
         /\ tiles'[Len(tiles')] = FetchedTiles(req.x, req.y)[Len(tiles')]
         /\ (lastFetch' # "found") = (tiles'[Len(tiles')] = null)]_vars

C3_Witness ==
    /\ pc = "done"
    /\ Len(tiles) = 9
    /\ tiles[4] # null /\ tiles[5] = null /\ tiles[6] # null
    /\ res[1].status = 200

\* The buffered window the handler builds for a request at (x, y)
\* (server.js:501-505).
WindowOf(x, y) == stitchTiles(FetchedTiles(x, y), PositionsOf, 1)

\* C5: for two horizontally or vertically adjacent addresses whose
\* neighbourhoods are all present, the two buffered windows agree on the
\* pixels they share: the last interior and the halo column (row) of one
\* are the halo and the first interior column (row) of the other.
C5_AdjacentWindowsAgree ==
    (pc = "done" /\ KnownTileset /\ world.present = Region) =>
        LET W == world.width
            H == world.height
            w == W + 2
            h == H + 2
            right == WindowOf(req.x + 1, req.y)
            below == WindowOf(req.x, req.y + 1)
        IN  /\ stitched = WindowOf(req.x, req.y)
            /\ \A j \in 0..(h - 1), d \in 0..1 :
                 stitched.data[j * w + W + d] = right.data[j * w + d]
            /\ \A i \in 0..(w - 1), d \in 0..1 :
                 stitched.data[(H + d) * w + i] = below.data[d * w + i]

(***************************************************************************)
(* Direct calls of one function: the inputs are drawn in Init, one action  *)
(* applies the function.                                                   *)
(***************************************************************************)
IdleHandler ==
    /\ tilesets = {"dem"}
    /\ fileHandle = [t \in tilesets |-> null]
    /\ opens = 0
    /\ requests = <<>>
    /\ cfg = [ENCODING |-> "terrarium", CONTOUR_INTERVAL |-> 10, MAJOR_INTERVAL |-> 50]
    /\ world = [width |-> 1, height |-> 1, present |-> {}]
    /\ req = [tileset |-> "dem", z |-> 0, x |-> 0, y |-> 0]
    /\ tiles = <<>>
    /\ positions = <<>>
    /\ lastFetch = "none"
    /\ fetched = <<>>
    /\ stitched = null
    /\ contourFeatures = <<>>
    /\ clippedFeatures = <<>>
    /\ mvtBuffer = null
    /\ ran = {}
    /\ res = <<>>

\* The tiles array fetchTileWithBuffer builds when exactly the offsets in
\* mask decode, for a request at (0, 0).
TilesOf(mask, W, H) ==
    [k \in 1..9 |-> IF OffsetAt(k) \in mask
                    THEN DecodedTile(OffsetAt(k).x, OffsetAt(k).y, W, H,
                                     OffsetAt(k).x, OffsetAt(k).y)
                    ELSE null]

InitStitch ==
    /\ IdleHandler
    /\ pc = "call"
    /\ \E W \in 1..MaxTileSize, H \in 1..MaxTileSize, mask \in SUBSET Offsets :
         \E b \in 1..Min2(W, H) :
           call = [fn   |-> "stitchTiles",
                   args |-> [tiles |-> TilesOf(mask, W, H), positions |-> PositionsOf,
                             bufferPixels |-> b, mask |-> mask, W |-> W, H |-> H],
                   ret  |-> null]

CallStitch ==
    /\ pc = "call"
    /\ call.fn = "stitchTiles"
    /\ call' = [call EXCEPT !.ret = stitchTiles(call.args.tiles, call.args.positions,
                                                 call.args.bufferPixels)]
    /\ pc' = "returned"
    /\ UNCHANGED handlerVars

SpecStitch == InitStitch /\ [][CallStitch]_vars

(***************************************************************************)
(* Claims about stitchTiles, checked under SpecStitch.                     *)
(***************************************************************************)
StitchReturned == pc = "returned" /\ call.fn = "stitchTiles"

\* The pixel at (cx, cy) of the conceptual 3W x 3H canvas: the pixel of the
\* present tile covering the position, the sentinel where that tile is missing.
CanvasPixel(tls, W, H, cx, cy) ==
    LET t == tls[(cy \div H) * 3 + (cx \div W) + 1]
    IN  IF t = null THEN SentinelPixel ELSE t.data[(cy % H) * W + (cx % W)]

\* C1: for every tile size W x H, square or not, and every buffer b in
\* 1..min(W, H), stitchTiles returns a window of (W+2b) x (H+2b) pixels whose
\* pixel (i, j) is the pixel (W-b+i, H-b+j) of the conceptual 3W x 3H canvas.
C1_WindowIsCanvasCut ==
    (StitchReturned /\ call.args.mask # {}) =>
        LET a == call.args
            w == a.W + 2 * a.bufferPixels
            h == a.H + 2 * a.bufferPixels
        IN  /\ call.ret # null
            /\ call.ret.width = w
            /\ call.ret.height = h
            /\ DOMAIN call.ret.data = 0..(w * h - 1)
            /\ \A i \in 0..(w - 1), j \in 0..(h - 1) :
                 call.ret.data[j * w + i] =
                   CanvasPixel(a.tiles, a.W, a.H,
                               a.W - a.bufferPixels + i, a.H - a.bufferPixels + j)

\* C4: when only the centre tile is present, stitchTiles returns a window in
\* which every pixel outside the centre area is the sentinel and every pixel
\* inside it is the centre tile's pixel at the same position.
C4_CentreOnlyWindow ==
    (StitchReturned /\ call.args.mask = {[x |-> 0, y |-> 0]}) =>
        LET a == call.args
            b == a.bufferPixels
            w == a.W + 2 * b
            h == a.H + 2 * b
            centre == a.tiles[5]
        IN  /\ call.ret # null
            /\ \A i \in 0..(w - 1), j \in 0..(h - 1) :
                 call.ret.data[j * w + i] =
                   IF i >= b /\ i < b + a.W /\ j >= b /\ j < b + a.H
                   THEN centre.data[(j - b) * a.W + (i - b)]
                   ELSE SentinelPixel

(***************************************************************************)
(* Sample inputs of the direct calls.                                      *)
(***************************************************************************)
\* The pixel <<r, g, b>> whose mapbox value r*65536 + g*256 + b is n.
MapboxPixel(n) == <<n \div 65536, (n \div 256) % 256, n % 256>>

\* Pixels whose elevation is k or k + 0.5 metres, k in -MaxMeters..MaxMeters.
SamplePixels(encoding) ==
    IF encoding = "terrarium"
    THEN {<<127, 256 - k, b>> : k \in 1..MaxMeters, b \in {0, 128}}
           \cup {<<128, k, b>> : k \in 0..MaxMeters, b \in {0, 128}}
    ELSE {MapboxPixel(100000 + 10 * k + h) : k \in (-MaxMeters)..MaxMeters, h \in {0, 5}}

(***************************************************************************)
(* The threshold plan of generateContours (server.js:154-161) called with  *)
(* the elevations of two sample pixels as range.                           *)
(***************************************************************************)
InitPlan ==
    /\ IdleHandler
    /\ pc = "call"
    /\ \E encoding \in {"terrarium", "mapbox"}, i \in 1..MaxInterval :
         \E p \in SamplePixels(encoding), q \in SamplePixels(encoding) :
           call = [fn   |-> "PlanThresholds",
                   args |-> [minE |-> decodeElevation(p[1], p[2], p[3], encoding),
                             maxE |-> decodeElevation(q[1], q[2], q[3], encoding),
                             S |-> Scale(encoding), minInterval |-> i],
                   ret  |-> null]

CallPlan ==
    /\ pc = "call"
    /\ call.fn = "PlanThresholds"
    /\ call' = [call EXCEPT !.ret = PlanThresholds(call.args.minE, call.args.maxE,
                                                    call.args.S, call.args.minInterval)]
    /\ pc' = "returned"
    /\ UNCHANGED handlerVars

SpecPlan == InitPlan /\ [][CallPlan]_vars

PlanReturned == pc = "returned" /\ call.fn = "PlanThresholds"

\* The integers t with min <= t <= max that are multiples of i.
MultiplesInRange(minE, maxE, S, i) ==
    {t \in (minE \div S)..(maxE \div S + 1) :
       t % i = 0 /\ minE <= t * S /\ t * S <= maxE}

\* C6: the threshold list is strictly increasing, holds exactly the
\* multiples of the interval between min and max (that is, from
\* ceil(min / i) * i on), starts within [min, min + i] and ends <= max.
C6_ThresholdsAreTheMultiples ==
    PlanReturned =>
        LET a == call.args
            t == call.ret
        IN  /\ \A k \in 1..(Len(t) - 1) : t[k] < t[k + 1]
            /\ {t[k] : k \in 1..Len(t)} = MultiplesInRange(a.minE, a.maxE, a.S, a.minInterval)
            /\ Len(t) > 0 =>
                 /\ a.minE <= t[1] * a.S
                 /\ t[1] * a.S <= a.minE + a.minInterval * a.S
                 /\ t[Len(t)] * a.S <= a.maxE

C6_Witness == PlanReturned /\ Len(call.ret) >= 3 /\ call.args.minE % call.args.S # 0

\* C7 as claimed: the threshold list is empty if and only if min > max.
C7_EmptyIffMinAboveMax ==
    PlanReturned => ((call.ret = <<>>) <=> (call.args.minE > call.args.maxE))

\* C7 as amended: the threshold list is empty if and only if no multiple of
\* the interval lies in [min, max]; that is so whenever min > max, and also
\* for ranges with min <= max that hold no multiple.
C7_EmptyIffNoMultipleInRange ==
    PlanReturned =>
        LET a == call.args
        IN  /\ (call.ret = <<>>) <=>
                 (MultiplesInRange(a.minE, a.maxE, a.S, a.minInterval) = {})
            /\ a.minE > a.maxE => call.ret = <<>>

C7_Witness ==
    /\ PlanReturned
    /\ call.ret = <<>>
    /\ call.args.minE < call.args.maxE

(***************************************************************************)
(* generateContours (server.js:133-176) called on a 2 x 1 image of sample  *)
(* pixels.                                                                 *)
(***************************************************************************)
InitGenerate ==
    /\ IdleHandler
    /\ pc = "call"
    /\ \E encoding \in {"terrarium", "mapbox"}, i \in 1..MaxInterval, M \in 1..MaxInterval :
         \E p \in SamplePixels(encoding), q \in SamplePixels(encoding) :
           call = [fn   |-> "generateContours",
                   args |-> [imageData |-> [n \in 0..1 |->
                                              IF n = 0 THEN <<p[1], p[2], p[3], 255>>
                                                       ELSE <<q[1], q[2], q[3], 255>>],
                             width |-> 2, height |-> 1, encoding |-> encoding,
                             minInterval |-> i, majorInterval |-> M],
                   ret  |-> null]

CallGenerate ==
    /\ pc = "call"
    /\ call.fn = "generateContours"
    /\ call' = [call EXCEPT !.ret =
                  generateContours(call.args.imageData, call.args.width, call.args.height,
                                   call.args.encoding, call.args.minInterval,
                                   call.args.majorInterval)]
    /\ pc' = "returned"
    /\ UNCHANGED handlerVars

SpecGenerate == InitGenerate /\ [][CallGenerate]_vars

GenerateReturned == pc = "returned" /\ call.fn = "generateContours"

\* value is k * M for an integer k.
IsMultipleOf(value, M) == \E k \in (-Abs(value))..Abs(value) : value = k * M

\* value is M / 2 away from a multiple of M.
IsHalfwayOf(value, M) == \E k \in (-Abs(value) - 1)..Abs(value) : 2 * value = (2 * k + 1) * M

\* C8: every level generateContours returns is major exactly when its value
\* is within 0.01 of a multiple of majorInterval: a multiple of it
\* (positive, zero or negative) is major, a value majorInterval / 2 away
\* from a multiple is minor.
C8_MajorIffMultiple ==
    GenerateReturned =>
        \A n \in 1..Len(call.ret) :
          LET level == call.ret[n]
              M == call.args.majorInterval
          IN  /\ level.isMajor = IsMultipleOf(level.value, M)
              /\ IsHalfwayOf(level.value, M) => ~level.isMajor

C8_Witness ==
    /\ GenerateReturned
    /\ call.args.majorInterval = 2
    /\ \E n \in 1..Len(call.ret) : call.ret[n].value < 0 /\ call.ret[n].isMajor
    /\ \E n \in 1..Len(call.ret) : call.ret[n].value = 0 /\ call.ret[n].isMajor
    /\ \E n \in 1..Len(call.ret) : call.ret[n].value = -1 /\ ~call.ret[n].isMajor
    /\ \E n \in 1..Len(call.ret) : call.ret[n].value > 0 /\ call.ret[n].isMajor

(***************************************************************************)
(* decodeElevation (server.js:123-130) called on byte triples.             *)
(***************************************************************************)
SampleBytes == {0, 1, 127, 128, 254, 255}

InitDecode ==
    /\ IdleHandler
    /\ pc = "call"
    /\ \E r \in SampleBytes, g \in SampleBytes, b \in SampleBytes,
          encoding \in {"terrarium", "mapbox"} :
           call = [fn   |-> "decodeElevation",
                   args |-> [r |-> r, g |-> g, b |-> b, encoding |-> encoding],
                   ret  |-> 0]

CallDecode ==
    /\ pc = "call"
    /\ call.fn = "decodeElevation"
    /\ call' = [call EXCEPT !.ret = decodeElevation(call.args.r, call.args.g,
                                                     call.args.b, call.args.encoding)]
    /\ pc' = "returned"
    /\ UNCHANGED handlerVars

SpecDecode == InitDecode /\ [][CallDecode]_vars

DecodeReturned == pc = "returned" /\ call.fn = "decodeElevation"

\* C9: decodeElevation returns r*256 + g + b/256 - 32768 under terrarium
\* and -10000 + (r*65536 + g*256 + b) * 0.1 under mapbox, fraction included
\* (256 times, respectively 10 times, the result is the integer below);
\* terrarium (128,0,0) is 0 and mapbox (0,0,0) is -10000.
C9_DecodeFormulas ==
    DecodeReturned =>
        LET a == call.args
        IN  /\ a.encoding = "terrarium" =>
                 /\ call.ret = 65536 * a.r + 256 * a.g + a.b - 8388608
                 /\ call.ret % 256 = a.b
                 /\ (a.r = 128 /\ a.g = 0 /\ a.b = 0) => call.ret = 0
            /\ a.encoding = "mapbox" =>
                 /\ call.ret = (65536 * a.r + 256 * a.g + a.b) - 100000
                 /\ call.ret % 10 = (6 * a.r + 6 * a.g + a.b) % 10
                 /\ (a.r = 0 /\ a.g = 0 /\ a.b = 0) => call.ret = -10000 * Scale("mapbox")

C9_Witness ==
    /\ DecodeReturned
    /\ call.args = [r |-> 128, g |-> 1, b |-> 128, encoding |-> "terrarium"]
    /\ call.ret * 2 = 3 * Scale("terrarium")

(***************************************************************************)
(* clipContoursToTile (server.js:382-430) called on two contour levels     *)
(* built from sample polygons, for a 2 x 2 tile.                           *)
(***************************************************************************)
\* Sample rings on the buffered grid of a 2 x 2 tile with buffer b: without
\* points, with one point, an open line from the grid's corner to its far
\* edge, and the closed outline of the whole grid.
SampleRing0 == <<>>

SampleRing1(b) == << <<0, b>> >>

SampleRing2(b) == << <<0, 0>>, <<2 + 2 * b, 1>> >>

SampleRing5(b) ==
    << <<0, 0>>, <<2 + 2 * b, 0>>, <<2 + 2 * b, 2 + 2 * b>>, <<0, 2 + 2 * b>>, <<0, 0>> >>

SamplePolygons(b) ==
    {<<>>, <<SampleRing1(b)>>, <<SampleRing2(b)>>, <<SampleRing5(b), SampleRing2(b)>>,
     <<SampleRing0, SampleRing5(b), SampleRing1(b)>>}

\* The sequences of at most n elements of S.
RECURSIVE SeqsUpTo(_, _)
SeqsUpTo(S, n) ==
    IF n = 0 THEN {<<>>}
    ELSE LET shorter == SeqsUpTo(S, n - 1)
         IN  shorter \cup {Append(q, e) : q \in shorter, e \in S}

InitClip ==
    /\ IdleHandler
    /\ pc = "call"
    /\ \E b \in 1..MaxBuffer :
         \E c1 \in SeqsUpTo(SamplePolygons(b), MaxPolygons),
            c2 \in SeqsUpTo(SamplePolygons(b), MaxPolygons) :
           call = [fn   |-> "clipContoursToTile",
                   args |-> [contourFeatures |->
                               <<[type |-> "MultiPolygon", value |-> 10,
                                  coordinates |-> c1, isMajor |-> FALSE],
                                 [type |-> "MultiPolygon", value |-> 50,
                                  coordinates |-> c2, isMajor |-> TRUE]>>,
                             tileWidth |-> 2, tileHeight |-> 2, buffer |-> b],
                   ret  |-> null]

CallClip ==
    /\ pc = "call"
    /\ call.fn = "clipContoursToTile"
    /\ call' = [call EXCEPT !.ret =
                  clipContoursToTile(call.args.contourFeatures, call.args.tileWidth,
                                     call.args.tileHeight, call.args.buffer)]
    /\ pc' = "returned"
    /\ UNCHANGED handlerVars

SpecClip == InitClip /\ [][CallClip]_vars

ClipReturned == pc = "returned" /\ call.fn = "clipContoursToTile"

\* The levels with buffer added to every coordinate.
AddBuffer(features, buffer) ==
    [n \in 1..Len(features) |->
       [features[n] EXCEPT !.coordinates =
          [p \in 1..Len(@) |->
             [r \in 1..Len(@[p]) |->
                [k \in 1..Len(@[p][r]) |->
                   <<@[p][r][k][1] + buffer, @[p][r][k][2] + buffer>>]]]]]

\* The levels without their rings of fewer than 2 points, then without the
\* polygons left with no ring, then without the levels left with no polygon.
WithoutShortRings(features) ==
    LET LongRing(ring) == Len(ring) >= 2
        NonEmpty(q) == Len(q) >= 1
        PrunePolygon(polygon) == SelectSeq(polygon, LongRing)
        PruneLevel(level) ==
            [level EXCEPT !.coordinates =
               SelectSeq([p \in 1..Len(@) |-> PrunePolygon(@[p])], NonEmpty)]
        HasPolygon(level) == Len(level.coordinates) >= 1
    IN  SelectSeq([n \in 1..Len(features) |-> PruneLevel(features[n])], HasPolygon)

\* The rings of the levels that have a point, in order, each with the value
\* and isMajor of its level.
PointRings(features) ==
    LET OfLevel(level) ==
            LET Tagged(ring) == [value |-> level.value, isMajor |-> level.isMajor,
                                 ring |-> ring]
                OfPolygon(polygon) == [k \in 1..Len(polygon) |-> Tagged(polygon[k])]
            IN  Flatten([k \in 1..Len(level.coordinates) |-> OfPolygon(level.coordinates[k])])
        HasPoint(t) == Len(t.ring) >= 1
    IN  SelectSeq(Flatten([k \in 1..Len(features) |-> OfLevel(features[k])]), HasPoint)

\* C10 as claimed: clipContoursToTile drops no point, and adding buffer back
\* to every output coordinate reproduces the input rings exactly, with
\* their value, isMajor and order.
C10_RoundTripIsExact ==
    ClipReturned =>
        PointRings(AddBuffer(call.ret, call.args.buffer))
          = PointRings(call.args.contourFeatures)

\* C10 as amended: clipContoursToTile subtracts buffer from the x and y of
\* every point of every ring of at least 2 points and never clamps; value,
\* isMajor and the order of levels, polygons, rings and points are kept, and
\* adding buffer back reproduces the input without its rings of fewer than
\* 2 points (and without the polygons and levels these leave empty).
C10_RoundTripOfKeptRings ==
    ClipReturned =>
        AddBuffer(call.ret, call.args.buffer) = WithoutShortRings(call.args.contourFeatures)

\* A call whose output has a negative coordinate and one beyond the tile.
C10_Witness ==
    /\ ClipReturned
    /\ Len(call.ret) = 2
    /\ \E n \in 1..2 : \E p \in 1..Len(call.ret[n].coordinates) :
         \E r \in 1..Len(call.ret[n].coordinates[p]) :
           LET ring == call.ret[n].coordinates[p][r]
           IN  /\ \E k \in 1..Len(ring) : ring[k][1] < 0
               /\ \E k \in 1..Len(ring) : ring[k][1] > call.args.tileWidth

(***************************************************************************)
(* clipContoursToTile and encodeMVT as the handler chains them             *)
(* (server.js:522-530), called on two contour levels in buffered-grid      *)
(* coordinates.                                                            *)
(***************************************************************************)
\* Sample rings on the buffered grid of a W x H tile with buffer b: one
\* point, a line from the grid's corner through the tile, and the closed
\* outline of the tile itself.
EncodeRing1(W, H, b) == << <<b, b>> >>

EncodeRing3(W, H, b) == << <<0, 0>>, <<b + 1, b + 1>>, <<b + 2, H + 2 * b>> >>

EncodeRing5(W, H, b) ==
    << <<b, b>>, <<W + b, b>>, <<W + b, H + b>>, <<b, H + b>>, <<b, b>> >>

EncodePolygons(W, H, b) ==
    {<<>>, <<EncodeRing1(W, H, b)>>, <<EncodeRing5(W, H, b), EncodeRing3(W, H, b)>>,
     <<EncodeRing3(W, H, b), EncodeRing1(W, H, b), EncodeRing5(W, H, b)>>}

InitEncode ==
    /\ IdleHandler
    /\ pc = "call"
    /\ \E W \in MaxTileSize..(MaxTileSize + 1), H \in MaxTileSize..(MaxTileSize + 1),
          b \in 1..MaxBuffer :
         \E c1 \in SeqsUpTo(EncodePolygons(W, H, b), MaxPolygons),
            c2 \in SeqsUpTo(EncodePolygons(W, H, b), MaxPolygons) :
           call = [fn   |-> "encodeMVT",
                   args |-> [contourFeatures |->
                               <<[type |-> "MultiPolygon", value |-> 10,
                                  coordinates |-> c1, isMajor |-> FALSE],
                                 [type |-> "MultiPolygon", value |-> 50,
                                  coordinates |-> c2, isMajor |-> TRUE]>>,
                             tileWidth |-> W, tileHeight |-> H, buffer |-> b,
                             z |-> 1, x |-> 0, y |-> 0],
                   ret  |-> null]

CallEncode ==
    /\ pc = "call"
    /\ call.fn = "encodeMVT"
    /\ call' = [call EXCEPT !.ret =
                  encodeMVT(clipContoursToTile(call.args.contourFeatures,
                                               call.args.tileWidth, call.args.tileHeight,
                                               call.args.buffer),
                            call.args.tileWidth, call.args.tileHeight,
                            call.args.z, call.args.x, call.args.y)]
    /\ pc' = "returned"
    /\ UNCHANGED handlerVars

SpecEncode == InitEncode /\ [][CallEncode]_vars

EncodeReturned == pc = "returned" /\ call.fn = "encodeMVT"

\* t is v / d rounded to the nearest integer, halves upwards.
IsRounded(t, v, d) == 2 * d * t - d <= 2 * v /\ 2 * v < 2 * d * t + d

\* The rings of at least 2 points of the levels, in level, polygon and ring
\* order, each with the value and isMajor of its level.
LineRings(features) ==
    LET Long(t) == Len(t.ring) >= 2
    IN  SelectSeq(PointRings(features), Long)

\* C11: encodeMVT emits one LineString feature (type 2) per ring of at least
\* 2 points, in level then polygon and ring order, into the one layer
\* 'contours', tagged ele = the level's value and level = 1 for a major
\* level, 0 otherwise; every point (x, y) of the buffered grid becomes
\* (round((x - buffer) / tileWidth * 4096), round((y - buffer) / tileHeight
\* * 4096)), so that buffer maps to 0 and tileWidth + buffer to 4096.
C11_OneLineStringPerRing ==
    EncodeReturned =>
        LET a == call.args
            rings == LineRings(a.contourFeatures)
            out == call.ret.features
        IN  /\ call.ret.layer = "contours"
            /\ Len(out) = Len(rings)
            /\ \A n \in 1..Len(out) :
                 /\ out[n].type = 2
                 /\ out[n].tags = [ele |-> rings[n].value,
                                   level |-> IF rings[n].isMajor THEN 1 ELSE 0]
                 /\ Len(out[n].geometry) = 1
                 /\ Len(out[n].geometry[1]) = Len(rings[n].ring)
                 /\ \A k \in 1..Len(rings[n].ring) :
                      LET pt == rings[n].ring[k]
                          q == out[n].geometry[1][k]
                      IN  /\ IsRounded(q[1], (pt[1] - a.buffer) * 4096, a.tileWidth)
                          /\ IsRounded(q[2], (pt[2] - a.buffer) * 4096, a.tileHeight)
                          /\ pt[1] = a.buffer => q[1] = 0
                          /\ pt[1] = a.tileWidth + a.buffer => q[1] = 4096
                          /\ pt[2] = a.buffer => q[2] = 0
                          /\ pt[2] = a.tileHeight + a.buffer => q[2] = 4096

\* Both levels have features, one ring of a single point was left out, and
\* a coordinate was rounded upwards.
C11_Witness ==
    /\ EncodeReturned
    /\ call.args.tileWidth = 3
    /\ Len(call.ret.features) < Len(PointRings(call.args.contourFeatures))
    /\ \E n \in 1..Len(call.ret.features) : call.ret.features[n].tags.level = 0
    /\ \E n \in 1..Len(call.ret.features) :
         /\ call.ret.features[n].tags.level = 1
         /\ \E k \in 1..Len(call.ret.features[n].geometry[1]) :
              call.ret.features[n].geometry[1][k][1] = 2731

(***************************************************************************)
(* Claims about the responses of the tile handler, checked under Spec.     *)
(***************************************************************************)
\* generateContours ran and no level it returned has a ring.
NoContourFeatures ==
    /\ "generateContours" \in ran
    /\ "encodeMVT" \in ran
    /\ \A k \in 1..Len(contourFeatures) : contourFeatures[k].coordinates = <<>>

\* C12: when contour extraction yields no feature for a tile whose
\* neighbourhood is not entirely missing, encodeMVT returns a result of
\* length 0 and the handler answers 204 No Content.
C12_NoFeaturesIsNoContent ==
    (pc = "done" /\ KnownTileset /\ ~AllNeighboursMissing /\ NoContourFeatures) =>
        /\ mvtBuffer.length = 0
        /\ Len(res) = 1
        /\ res[1].status = 204

(***************************************************************************)
(* End-to-end scenarios: generateContours, clipContoursToTile and          *)
(* encodeMVT (server.js:512-530) called on an image whose elevation ramps  *)
(* linearly from lo to hi metres across its width; lo = hi is a flat grid. *)
(* The grid is taken as the tile itself: buffer 0.                         *)
(***************************************************************************)
\* The pixel that decodes to e metres, e a natural number.
ElevationPixel(e, encoding) ==
    IF encoding = "terrarium"
    THEN <<128 + e \div 256, e % 256, 0, 255>>
    ELSE <<MapboxPixel(100000 + 10 * e)[1], MapboxPixel(100000 + 10 * e)[2],
           MapboxPixel(100000 + 10 * e)[3], 255>>

\* The widths for which the ramp from 0 to 100 has integral steps.
RampWidths == {2, 3, 5, 6, 11}

RampGrid(lo, hi, width, height, encoding) ==
    [q \in 0..(width * height - 1) |->
       ElevationPixel(lo + ((hi - lo) * (q % width)) \div (width - 1), encoding)]

InitScenario ==
    /\ IdleHandler
    /\ pc = "call"
    /\ \E lo \in {0, 100}, width \in RampWidths, height \in 1..MaxTileSize,
          encoding \in {"terrarium", "mapbox"}, i \in {10, 20} :
         call = [fn   |-> "scenario",
                 args |-> [imageData |-> RampGrid(lo, 100, width, height, encoding),
                           lo |-> lo, hi |-> 100, width |-> width, height |-> height,
                           encoding |-> encoding, minInterval |-> i, majorInterval |-> 50],
                 ret  |-> null]

CallScenario ==
    /\ pc = "call"
    /\ call.fn = "scenario"
    /\ LET a == call.args
           levels == generateContours(a.imageData, a.width, a.height, a.encoding,
                                      a.minInterval, a.majorInterval)
           clipped == clipContoursToTile(levels, a.width, a.height, 0)
       IN  call' = [call EXCEPT !.ret =
                      [levels |-> levels,
                       mvt    |-> encodeMVT(clipped, a.width, a.height, 0, 0, 0)]]
    /\ pc' = "returned"
    /\ UNCHANGED handlerVars

SpecScenario == InitScenario /\ [][CallScenario]_vars

ScenarioReturned == pc = "returned" /\ call.fn = "scenario"

\* The values of the levels that have a ring.
ProducedLevels(levels) ==
    {levels[n].value : n \in {m \in 1..Len(levels) : levels[m].coordinates # <<>>}}

\* C13: for a grid ramping from 0 to 100 across its width, with
\* minorInterval 10 and majorInterval 50, exactly the levels 10, 20, ..., 100
\* are produced, 50 and 100 as major levels and all others as minor ones.
C13_RampLevels ==
    (ScenarioReturned /\ call.args.lo = 0 /\ call.args.minInterval = 10) =>
        /\ ProducedLevels(call.ret.levels) = {10 * k : k \in 1..10}
        /\ \A n \in 1..Len(call.ret.levels) :
             call.ret.levels[n].isMajor = (call.ret.levels[n].value \in {50, 100})

\* C14: for a flat grid in which every cell is 100, with minorInterval 10,
\* no contour level is produced and the encoder returns a result of length 0.
C14_FlatGridIsEmpty ==
    (ScenarioReturned /\ call.args.lo = 100 /\ call.args.minInterval = 10) =>
        /\ ProducedLevels(call.ret.levels) = {}
        /\ call.ret.mvt.features = <<>>
        /\ call.ret.mvt.length = 0

\* C15: an ENCODING other than 'terrarium' and 'mapbox' is detected at
\* startup: the process serves no request, so no request is looked up,
\* fetched or answered, and the unknown encoding never shows as the 500 of a
\* tile request.
C15_UnknownEncodingNeverServes ==
    ~KnownEncoding(cfg.ENCODING) =>
        /\ pc = "start"
        /\ tiles = <<>>
        /\ res = <<>>

\* An exception was thrown after the fetch: the window was stitched and
\* decodeElevation threw on its first pixel.
ExceptionThrown == KnownTileset /\ stitched # null /\ ~KnownEncoding(cfg.ENCODING)

\* C17: an exception thrown while the tile is processed is answered with
\* 500 'Internal server error' and nothing else: the request ends with that
\* one response, never with 200, 204 or 404, and the later stages do not
\* run; a 500 is sent for no other reason.
C17_ExceptionIsInternalError ==
    pc = "done" =>
        /\ Len(res) = 1
        /\ ExceptionThrown =>
             /\ res[1] = [status |-> 500, body |-> "Internal server error",
                          contentType |-> "text/html"]
             /\ mvtBuffer = null
             /\ "encodeMVT" \notin ran
        /\ res[1].status = 500 => ExceptionThrown

C17_Witness ==
    /\ pc = "done"
    /\ ExceptionThrown
    /\ tiles[5] # null
    /\ res[1].status = 500

\* C18: every 200 response of the tile handler has the content type
\* application/x-protobuf and a body of positive length holding the layer
\* 'contours', in which every feature is a LineString (type 2) with a
\* geometry of at least 2 points and the two properties ele and level.
C18_OkResponseIsContourTile ==
    \A k \in 1..Len(res) :
      res[k].status = 200 =>
        /\ res[k].contentType = "application/x-protobuf"
        /\ mvtBuffer # null
        /\ mvtBuffer.length > 0
        /\ mvtBuffer.layer = "contours"
        /\ \A n \in 1..Len(mvtBuffer.features) :
             LET f == mvtBuffer.features[n]
             IN  /\ f.type = 2
                 /\ Len(f.geometry) = 1
                 /\ Len(f.geometry[1]) >= 2
                 /\ DOMAIN f.tags = {"ele", "level"}
                 /\ f.tags.level \in {0, 1}

C18_Witness ==
    /\ pc = "done"
    /\ res[1].status = 200
    /\ \E n \in 1..Len(mvtBuffer.features) : mvtBuffer.features[n].tags.level = 0
    /\ \E n \in 1..Len(mvtBuffer.features) : mvtBuffer.features[n].tags.level = 1

(***************************************************************************)
(* The server under two concurrent requests (server.js:433-619).  Every    *)
(* request has its own handler with its own locals; the handlers share the *)
(* registry, the FileSource of every tileset and the configuration.  A     *)
(* handler runs until its next await; the steps of the two handlers        *)
(* interleave at the awaits.                                               *)
(***************************************************************************)
\* a || d for a number and for a string: 0 and '' are replaced by d.
NumOr(a, d) == IF a = 0 THEN d ELSE a

StrOr(a, d) == IF a = "" THEN d ELSE a

\* metadata?.name, metadata?.attribution, metadata?.description: '' stands
\* for undefined.
MetaField(metadata, field) == IF metadata = null THEN "" ELSE metadata[field]

\* Headers and metadata of the source.  Longitudes and latitudes are in
\* 1/10000 degree.
HeaderSamples ==
    <<[minZoom |-> 0, maxZoom |-> 0, centerZoom |-> 0,
       minLon |-> 0, minLat |-> 0, maxLon |-> 0, maxLat |-> 0],
      [minZoom |-> 2, maxZoom |-> 12, centerZoom |-> 0,
       minLon |-> 50000, minLat |-> 450000, maxLon |-> 110000, maxLat |-> 480000]>>

MetadataSamples ==
    <<null, [name |-> "Alps", attribution |-> "survey", description |-> "Terrain"]>>

\* bounds (server.js:450-455, 579-584)
BoundsOf(header) ==
    <<NumOr(header.minLon, -1800000), NumOr(header.minLat, -850511),
      NumOr(header.maxLon, 1800000), NumOr(header.maxLat, 850511)>>

\* A response: status, Content-Type and body.
Response(status, contentType, body) ==
    [status |-> status, contentType |-> contentType, body |-> body]

\* server.js:490-495, 554-559
TilesetNotFound(tileset) ==
    Response(404, "application/json",
             [error |-> "Tileset not found", tileset |-> tileset, available |-> tilesets])

\* Mutant of TileJson: the document describes no layer.
TileJsonNoLayers(metadata, header, tileset) ==
    [tilejson      |-> "3.0.0",
     name          |-> StrOr(MetaField(metadata, "name"), tileset),
     tiles         |-> <<[tileset |-> tileset, path |-> "{z}/{x}/{y}.mvt"]>>,
     minzoom       |-> NumOr(header.minZoom, 0),
     maxzoom       |-> NumOr(header.maxZoom, 14),
     bounds        |-> BoundsOf(header),
     vector_layers |-> <<>>]

\* The TileJSON document (server.js:569-602); a centre coordinate is the
\* sum of two bounds over 2.
TileJson(metadata, header, tileset) ==
    [tilejson      |-> "3.0.0",
     name          |-> StrOr(MetaField(metadata, "name"), tileset),
     description   |-> "Contour lines generated from DEM data",
     version       |-> "1.0.0",
     scheme        |-> "xyz",
     tiles         |-> <<[tileset |-> tileset, path |-> "{z}/{x}/{y}.mvt"]>>,
     minzoom       |-> NumOr(header.minZoom, 0),
     maxzoom       |-> NumOr(header.maxZoom, 14),
     bounds        |-> BoundsOf(header),
     center        |-> <<[num |-> BoundsOf(header)[1] + BoundsOf(header)[3], den |-> 2],
                         [num |-> BoundsOf(header)[2] + BoundsOf(header)[4], den |-> 2],
                         NumOr(header.centerZoom,
                               (header.minZoom + header.maxZoom) \div 2)>>,
     vector_layers |-> <<[id |-> "contours",
                          description |-> "Elevation contour lines",
                          minzoom |-> NumOr(header.minZoom, 0),
                          maxzoom |-> NumOr(header.maxZoom, 14),
                          fields |-> {"ele", "level"}]>>,
     attribution   |-> MetaField(metadata, "attribution")]

\* One entry of the catalog (server.js:446-459) and the entry of a tileset
\* whose header or metadata could not be read (server.js:462-466).
CatalogEntry(name, header, metadata) ==
    [name        |-> name,
     tilejson    |-> [tileset |-> name, path |-> ".json"],
     tiles       |-> [tileset |-> name, path |-> "{z}/{x}/{y}.mvt"],
     bounds      |-> BoundsOf(header),
     minzoom     |-> NumOr(header.minZoom, 0),
     maxzoom     |-> NumOr(header.maxZoom, 14),
     description |-> StrOr(MetaField(metadata, "description"),
                           "Contour lines generated from DEM data")]

CatalogErrorEntry(name) ==
    [name     |-> name,
     error    |-> "Failed to read metadata",
     tilejson |-> [tileset |-> name, path |-> ".json"]]

\* server.js:470-473
CatalogResponse(catalog) ==
    Response(200, "application/json",
             [tilesets |-> catalog, count |-> Cardinality(tilesets)])

\* server.js:613-618
HealthResponse ==
    Response(200, "application/json",
             [status |-> "ok", directory |-> "pmtilesDirPath", tilesets |-> tilesets,
              count |-> Cardinality(tilesets)])

\* Mutant of PipelineResponse: the tile carries the number of files the
\* server has opened so far.
PipelineResponseStamped(tls, poss, rq) ==
    IF stitchTiles(tls, poss, 1) = null
    THEN Response(404, "text/html", [text |-> "Tile not found"])
    ELSE Response(200, "application/x-protobuf",
                  [length |-> 17 + opens, features |-> <<>>])

\* The response of the tile handler for the tiles it fetched
\* (server.js:503-544).
PipelineResponse(tls, poss, rq) ==
    LET st == stitchTiles(tls, poss, 1)
    IN  IF st = null
        THEN Response(404, "text/html", [text |-> "Tile not found"])
        ELSE IF ~KnownEncoding(cfg.ENCODING)
        THEN Response(500, "text/html", [text |-> "Internal server error"])
        ELSE
        LET cf == generateContours(st.data, st.width, st.height, cfg.ENCODING,
                                   cfg.CONTOUR_INTERVAL, cfg.MAJOR_INTERVAL)
            cl == clipContoursToTile(cf, st.tileWidth, st.tileHeight, st.buffer)
            mvt == encodeMVT(cl, st.tileWidth, st.tileHeight, rq.z, rq.x, rq.y)
        IN  IF mvt.length = 0
            THEN Response(204, "none", [text |-> ""])
            ELSE Response(200, "application/x-protobuf", mvt)

\* The tilesets in the order the catalog iterates the registry.
RECURSIVE TilesetOrder(_)
TilesetOrder(S) ==
    IF S = {} THEN <<>>
    ELSE LET t == CHOOSE t \in S : TRUE IN <<t>> \o TilesetOrder(S \ {t})

\* A request as it arrives.  faults is the number of transient read
\* failures the request is going to meet.
NewRequest(kind, tileset, x, y, faults) ==
    [kind |-> kind, tileset |-> tileset, z |-> 1, x |-> x, y |-> y,
     faulty |-> faults > 0, faults |-> faults,
     pc |-> "start", opening |-> FALSE,
     tiles |-> <<>>, positions |-> <<>>, lastFetch |-> "none", reads |-> {},
     metadata |-> null, header |-> null, todo |-> <<>>, catalog |-> <<>>,
     res |-> <<>>]

NewTileRequests ==
    {NewRequest("tile", t, x, 0, f) : t \in {"dem", "nope"}, x \in 0..MaxCoord, f \in 0..1}

NewRequests ==
    NewTileRequests
      \cup {NewRequest("tilejson", t, 0, 0, f) : t \in {"dem", "nope"}, f \in 0..1}
      \cup {NewRequest("catalog", "", 0, 0, f) : f \in 0..1}
      \cup {NewRequest("health", "", 0, 0, 0)}

InitServer ==
    /\ tilesets = {"dem"}
    /\ fileHandle = [t \in tilesets |-> null]
    /\ opens = 0
    /\ cfg \in {c \in Configs : c.CONTOUR_INTERVAL \in 1..1000}
    /\ \E P \in {Region, {}}, k \in 1..Len(HeaderSamples) :
         world = [width |-> 1, height |-> 1, present |-> P,
                  header |-> HeaderSamples[k], metadata |-> MetadataSamples[k]]
    /\ \E r1 \in {r \in NewTileRequests : r.x = 0}, r2 \in NewRequests :
         requests = <<r1, r2>>
    /\ req = [tileset |-> "dem", z |-> 0, x |-> 0, y |-> 0]
    /\ pc = "serving"
    /\ tiles = <<>>
    /\ positions = <<>>
    /\ lastFetch = "none"
    /\ fetched = <<>>
    /\ stitched = null
    /\ contourFeatures = <<>>
    /\ clippedFeatures = <<>>
    /\ mvtBuffer = null
    /\ ran = {}
    /\ res = <<>>
    /\ call = [fn |-> "none", args |-> null, ret |-> null]

\* The variables of the single-request handler and of the direct calls.
singleVars == <<req, pc, tiles, positions, lastFetch, fetched, stitched, contourFeatures,
                clippedFeatures, mvtBuffer, ran, res, call>>

\* The tileset whose source the request reads next.
CurrentTileset(r) == IF r.kind = "catalog" THEN Head(r.todo) ELSE r.tileset

\* The request is at an await of a library call that reads the source.
AtRead(r) ==
    \/ r.pc = "fetch" /\ Len(r.tiles) < 9
    \/ r.pc \in {"metadata", "header", "catalogHeader", "catalogMetadata"}

\* getBytes of the request finds a stored handle (server.js:82).
CanRead(r) == ~r.opening /\ fileHandle[CurrentTileset(r)] # null

\* Mutant of SrvLookup: the check of server.js:490 / 554 is missing.
SrvLookupUnchecked(i) ==
    LET r == requests[i]
    IN  /\ r.pc = "start"
        /\ r.kind \in {"tile", "tilejson"}
        /\ requests' = [requests EXCEPT ![i] =
             [r EXCEPT !.pc = IF r.kind = "tile" THEN "fetch" ELSE "metadata"]]
        /\ UNCHANGED <<tilesets, fileHandle, opens, cfg, world, singleVars>>

\* server.js:483-498 and 550-560: the lookup of the tileset, up to the
\* first await.
SrvLookup(i) ==
    LET r == requests[i]
    IN  /\ r.pc = "start"
        /\ r.kind \in {"tile", "tilejson"}
        /\ requests' = [requests EXCEPT ![i] =
             IF r.tileset \in tilesets
             THEN [r EXCEPT !.pc = IF r.kind = "tile" THEN "fetch" ELSE "metadata"]
             ELSE [r EXCEPT !.pc = "done",
                            !.res = Append(r.res, TilesetNotFound(r.tileset))]]
        /\ UNCHANGED <<tilesets, fileHandle, opens, cfg, world, singleVars>>

\* server.js:82-83: getBytes finds no handle and starts to open the file.
SrvBeginOpen(i) ==
    LET r == requests[i]
    IN  /\ AtRead(r)
        /\ ~r.opening
        /\ fileHandle[CurrentTileset(r)] = null
        /\ requests' = [requests EXCEPT ![i] = [r EXCEPT !.opening = TRUE]]
        /\ UNCHANGED <<tilesets, fileHandle, opens, cfg, world, singleVars>>

\* server.js:83: open resolves and the handle is stored, over whatever
\* handle another request stored in the meantime.
SrvFinishOpen(i) ==
    LET r == requests[i]
    IN  /\ r.opening
        /\ fileHandle' = [fileHandle EXCEPT ![CurrentTileset(r)] = Handle(opens + 1)]
        /\ opens' = opens + 1
        /\ requests' = [requests EXCEPT ![i] = [r EXCEPT !.opening = FALSE]]
        /\ UNCHANGED <<tilesets, cfg, world, singleVars>>

\* server.js:270-275
SrvFetchFound(i) ==
    LET r == requests[i]
        o == OffsetAt(Len(r.tiles) + 1)
    IN  /\ r.pc = "fetch"
        /\ Len(r.tiles) < 9
        /\ CanRead(r)
        /\ <<r.x + o.x, r.y + o.y>> \in world.present
        /\ requests' = [requests EXCEPT ![i] =
             [r EXCEPT !.tiles = Append(r.tiles,
                                        DecodedTile(r.x + o.x, r.y + o.y, world.width,
                                                    world.height, o.x, o.y)),
                       !.positions = Append(r.positions, o),
                       !.lastFetch = "found",
                       !.reads = r.reads \cup {"getZxy"}]]
        /\ UNCHANGED <<tilesets, fileHandle, opens, cfg, world, singleVars>>

\* The outcomes of a neighbour fetch that record null: the address does
\* not decode, or the request meets a transient failure.
MissingOutcomes(r, o) ==
    {outcome \in {"notFound", "getZxyThrew", "decodeImageThrew"} :
       /\ \/ <<r.x + o.x, r.y + o.y>> \notin world.present
          \/ r.faults > 0 /\ outcome # "notFound"
       /\ outcome = "getZxyThrew" \/ CanRead(r)}

\* Mutant of SrvFetchMissing: a fetch that throws removes the tileset from
\* the registry.
SrvFetchMissingPoisons(i) ==
    LET r == requests[i]
        o == OffsetAt(Len(r.tiles) + 1)
        present == <<r.x + o.x, r.y + o.y>> \in world.present
    IN  /\ r.pc = "fetch"
        /\ Len(r.tiles) < 9
        /\ \E outcome \in MissingOutcomes(r, o) :
             /\ requests' = [requests EXCEPT ![i] =
                  [r EXCEPT !.tiles = Append(r.tiles, null),
                            !.positions = Append(r.positions, o),
                            !.lastFetch = outcome,
                            !.opening = FALSE,
                            !.faults = IF present THEN r.faults - 1 ELSE r.faults,
                            !.reads = r.reads \cup {"getZxy"}]]
             /\ tilesets' = IF outcome = "notFound" THEN tilesets
                            ELSE tilesets \ {r.tileset}
        /\ UNCHANGED <<fileHandle, opens, cfg, world, singleVars>>

\* server.js:276-283
SrvFetchMissing(i) ==
    LET r == requests[i]
        o == OffsetAt(Len(r.tiles) + 1)
        present == <<r.x + o.x, r.y + o.y>> \in world.present
    IN  /\ r.pc = "fetch"
        /\ Len(r.tiles) < 9
        /\ \E outcome \in MissingOutcomes(r, o) :
             requests' = [requests EXCEPT ![i] =
               [r EXCEPT !.tiles = Append(r.tiles, null),
                         !.positions = Append(r.positions, o),
                         !.lastFetch = outcome,
                         !.opening = FALSE,
                         !.faults = IF present THEN r.faults - 1 ELSE r.faults,
                         !.reads = r.reads \cup {"getZxy"}]]
        /\ UNCHANGED <<tilesets, fileHandle, opens, cfg, world, singleVars>>

\* server.js:503-544
SrvProcessTile(i) ==
    LET r == requests[i]
    IN  /\ r.pc = "fetch"
        /\ Len(r.tiles) = 9
        /\ \E response \in {PipelineResponse(r.tiles, r.positions, r)} :
             requests' = [requests EXCEPT ![i] =
               [r EXCEPT !.pc = "done", !.res = Append(r.res, response)]]
        /\ UNCHANGED <<tilesets, fileHandle, opens, cfg, world, singleVars>>

\* server.js:605-608: the catch of the TileJSON handler.
TileJsonFailed(r) ==
    [r EXCEPT !.pc = "done", !.opening = FALSE, !.faults = r.faults - 1,
              !.res = Append(r.res, Response(500, "application/json",
                                             [error |-> "Failed to generate TileJSON"]))]

\* server.js:562: getMetadata resolves, or throws.
SrvGetMetadata(i) ==
    LET r == requests[i]
    IN  /\ r.pc = "metadata"
        /\ \/ /\ CanRead(r)
              /\ requests' = [requests EXCEPT ![i] =
                   [r EXCEPT !.pc = "header", !.metadata = world.metadata,
                             !.reads = r.reads \cup {"getMetadata"}]]
           \/ /\ r.faults > 0
              /\ requests' = [requests EXCEPT ![i] =
                   [TileJsonFailed(r) EXCEPT !.reads = r.reads \cup {"getMetadata"}]]
        /\ UNCHANGED <<tilesets, fileHandle, opens, cfg, world, singleVars>>

\* server.js:563-604: getHeader resolves and the document is sent, or
\* getHeader throws.
SrvGetHeader(i) ==
    LET r == requests[i]
    IN  /\ r.pc = "header"
        /\ \/ /\ CanRead(r)
              /\ requests' = [requests EXCEPT ![i] =
                   [r EXCEPT !.pc = "done", !.header = world.header,
                             !.reads = r.reads \cup {"getHeader"},
                             !.res = Append(r.res,
                                Response(200, "application/json",
                                         TileJson(r.metadata, world.header, r.tileset)))]]
           \/ /\ r.faults > 0
              /\ requests' = [requests EXCEPT ![i] =
                   [TileJsonFailed(r) EXCEPT !.reads = r.reads \cup {"getHeader"}]]
        /\ UNCHANGED <<tilesets, fileHandle, opens, cfg, world, singleVars>>

\* server.js:433-443: the catalog handler up to its first await.
SrvCatalogStart(i) ==
    LET r == requests[i]
    IN  /\ r.pc = "start"
        /\ r.kind = "catalog"
        /\ requests' = [requests EXCEPT ![i] =
             IF tilesets = {}
             THEN [r EXCEPT !.pc = "done", !.res = Append(r.res, CatalogResponse(<<>>))]
             ELSE [r EXCEPT !.pc = "catalogHeader", !.todo = TilesetOrder(tilesets)]]
        /\ UNCHANGED <<tilesets, fileHandle, opens, cfg, world, singleVars>>

\* The catalog handler after the entry of the current tileset is pushed:
\* the next iteration, or the response after the last one (server.js:470-473).
CatalogPushed(r, entry) ==
    LET catalog == Append(r.catalog, entry)
    IN  IF Len(r.todo) > 1
        THEN [r EXCEPT !.pc = "catalogHeader", !.todo = Tail(r.todo),
                       !.catalog = catalog, !.opening = FALSE]
        ELSE [r EXCEPT !.pc = "done", !.todo = <<>>, !.catalog = catalog,
                       !.opening = FALSE,
                       !.res = Append(r.res, CatalogResponse(catalog))]

\* server.js:443 and 460-467: getHeader resolves, or throws.
SrvCatalogHeader(i) ==
    LET r == requests[i]
    IN  /\ r.pc = "catalogHeader"
        /\ \/ /\ CanRead(r)
              /\ requests' = [requests EXCEPT ![i] =
                   [r EXCEPT !.pc = "catalogMetadata", !.header = world.header,
                             !.reads = r.reads \cup {"getHeader"}]]
           \/ /\ r.faults > 0
              /\ requests' = [requests EXCEPT ![i] =
                   [CatalogPushed(r, CatalogErrorEntry(Head(r.todo)))
                      EXCEPT !.faults = r.faults - 1,
                             !.reads = r.reads \cup {"getHeader"}]]
        /\ UNCHANGED <<tilesets, fileHandle, opens, cfg, world, singleVars>>

\* server.js:444-467: getMetadata resolves and the entry is pushed, or
\* getMetadata throws.
SrvCatalogMetadata(i) ==
    LET r == requests[i]
    IN  /\ r.pc = "catalogMetadata"
        /\ \/ /\ CanRead(r)
              /\ requests' = [requests EXCEPT ![i] =
                   [CatalogPushed(r, CatalogEntry(Head(r.todo), r.header, world.metadata))
                      EXCEPT !.metadata = world.metadata,
                             !.reads = r.reads \cup {"getMetadata"}]]
           \/ /\ r.faults > 0
              /\ requests' = [requests EXCEPT ![i] =
                   [CatalogPushed(r, CatalogErrorEntry(Head(r.todo)))
                      EXCEPT !.faults = r.faults - 1,
                             !.reads = r.reads \cup {"getMetadata"}]]
        /\ UNCHANGED <<tilesets, fileHandle, opens, cfg, world, singleVars>>

\* server.js:612-619
SrvHealth(i) ==
    LET r == requests[i]
    IN  /\ r.pc = "start"
        /\ r.kind = "health"
        /\ requests' = [requests EXCEPT ![i] =
             [r EXCEPT !.pc = "done", !.res = Append(r.res, HealthResponse)]]
        /\ UNCHANGED <<tilesets, fileHandle, opens, cfg, world, singleVars>>

NextServer ==
    \E i \in 1..Len(requests) :
      \/ SrvLookup(i)
      \/ SrvBeginOpen(i)
      \/ SrvFinishOpen(i)
      \/ SrvFetchFound(i)
      \/ SrvFetchMissing(i)
      \/ SrvProcessTile(i)
      \/ SrvGetMetadata(i)
      \/ SrvGetHeader(i)
      \/ SrvCatalogStart(i)
      \/ SrvCatalogHeader(i)
      \/ SrvCatalogMetadata(i)
      \/ SrvHealth(i)

SpecServer == InitServer /\ [][NextServer]_vars

(***************************************************************************)
(* Claims about concurrent requests, checked under SpecServer.             *)
(***************************************************************************)
\* C16: a tile request or a TileJSON request that names a tileset missing
\* from the registry is answered 404 'Tileset not found' at the lookup, and
\* nothing else happens for it: no getZxy, getHeader or getMetadata is
\* issued, no tile is recorded and no file is opened.
C16_UnknownTilesetIsNotFound ==
    \A i \in 1..Len(requests) :
      LET r == requests[i]
      IN  (r.kind \in {"tile", "tilejson"} /\ r.tileset \notin tilesets) =>
            /\ r.pc \in {"start", "done"}
            /\ r.reads = {}
            /\ r.tiles = <<>>
            /\ ~r.opening
            /\ r.pc = "done" =>
                 r.res = <<Response(404, "application/json",
                                    [error |-> "Tileset not found",
                                     tileset |-> r.tileset,
                                     available |-> tilesets])>>

C16_Witness ==
    /\ requests[1].kind = "tile" /\ requests[1].tileset = "nope"
    /\ requests[2].kind = "tilejson" /\ requests[2].tileset = "nope"
    /\ requests[1].pc = "done" /\ requests[2].pc = "done"

\* C19: no step of a request handler changes state that is shared between
\* requests: neither the entries of the registry nor the file source of a
\* tileset, the configuration or the source data.
C19_RequestsChangeNoSharedState ==
    [][/\ tilesets' = tilesets
       /\ fileHandle' = fileHandle
       /\ cfg' = cfg
       /\ world' = world]_vars

\* The response of a request that runs alone and meets no transient failure.
AloneResponse(r) ==
    IF r.kind = "tile"
    THEN IF r.tileset \notin tilesets THEN TilesetNotFound(r.tileset)
         ELSE PipelineResponse(FetchedTiles(r.x, r.y), PositionsOf, r)
    ELSE IF r.kind = "tilejson"
    THEN IF r.tileset \notin tilesets THEN TilesetNotFound(r.tileset)
         ELSE Response(200, "application/json",
                       TileJson(world.metadata, world.header, r.tileset))
    ELSE IF r.kind = "catalog"
    THEN CatalogResponse([k \in 1..Len(TilesetOrder(tilesets)) |->
                            CatalogEntry(TilesetOrder(tilesets)[k], world.header,
                                         world.metadata)])
    ELSE HealthResponse

\* C20: whatever the interleaving, and whatever failure the other request
\* meets, the registry keeps its entries and a request that meets no
\* transient failure of its own is answered exactly as it is when it runs
\* alone on the same source.
C20_FailuresStayInTheirRequest ==
    /\ tilesets = {"dem"}
    /\ \A i \in 1..Len(requests) :
         LET r == requests[i]
         IN  /\ Len(r.res) <= 1
             /\ (r.pc = "done") = (Len(r.res) = 1)
             /\ (r.pc = "done" /\ ~r.faulty) => r.res = <<AloneResponse(r)>>

\* Both requests opened the file, the first met a failure that changed its
\* own response, the second is a tile request answered 200.
C20_Witness ==
    /\ opens = 2
    /\ requests[1].pc = "done" /\ requests[2].pc = "done"
    /\ requests[1].faulty
    /\ requests[1].lastFetch # "decodeImageThrew"
    /\ requests[1].res # <<AloneResponse(requests[1])>>
    /\ requests[2].kind = "tile" /\ ~requests[2].faulty
    /\ requests[2].res[1].status = 200

C23_HeaderValuesAreReported ==
    \A i \in 1..Len(requests) :
      LET r == requests[i]
          h == world.header
          FromHeader(doc) ==
            /\ doc.minzoom = h.minZoom
            /\ doc.maxzoom = h.maxZoom
            /\ doc.bounds = <<h.minLon, h.minLat, h.maxLon, h.maxLat>>
      IN  (r.pc = "done" /\ ~r.faulty) =>
            /\ (r.kind = "tilejson" /\ r.tileset \in tilesets) =>
                 FromHeader(r.res[1].body)
            /\ r.kind = "catalog" =>
                 \A k \in 1..Len(r.res[1].body.tilesets) :
                   FromHeader(r.res[1].body.tilesets[k])

\* C28: the file of a tileset is opened at most once, and no two reads are
\* opening it at the same time, whatever the interleaving of the requests.
C28_FileOpenedAtMostOnce ==
    \A t \in tilesets :
      /\ opens <= 1
      /\ Cardinality({i \in 1..Len(requests) :
                        requests[i].opening /\ CurrentTileset(requests[i]) = t}) <= 1


(***************************************************************************)
(* fetchTileWithBuffer and the progress of the handler.                    *)
(***************************************************************************)
\* C25: fetchTileWithBuffer calls getZxy once for each of the 9 addresses
\* (z, x + dx, y + dy), dy outer and dx inner, with the address as it is
\* computed (neither wrapped nor checked against the range of the zoom);
\* it records one outcome and one position per call, the position of the
\* k-th call (counted from 0) being (k mod 3 - 1, floor(k / 3) - 1); and
\* stitchTiles runs only after all 9 outcomes are recorded.
C25_NineFetchesInOrder ==
    /\ Len(tiles) <= 9
    /\ Len(fetched) = Len(tiles)
    /\ Len(positions) = Len(tiles)
    /\ \A n \in 1..Len(fetched) :
         LET k == n - 1
         IN  /\ positions[n] = [x |-> (k % 3) - 1, y |-> (k \div 3) - 1]
             /\ fetched[n] = [z |-> req.z, x |-> req.x + (k % 3) - 1,
                              y |-> req.y + (k \div 3) - 1]
    /\ "stitchTiles" \in ran => Len(tiles) = 9
    /\ (pc = "done" /\ KnownTileset) => "stitchTiles" \in ran
    /\ ~KnownTileset => fetched = <<>>

\* A request at the edge of zoom 1 is answered: the first address has
\* x = -1 and the last one y = MaxCoord + 1.
C25_Witness ==
    /\ pc = "done"
    /\ req.x = 0 /\ req.y = MaxCoord
    /\ Len(fetched) = 9
    /\ fetched[1].x = -1
    /\ fetched[9].y = MaxCoord + 1
    /\ "stitchTiles" \in ran
    /\ res[1].status = 200

\* The handler under a fair event loop: a step that can be taken is taken.
\* Every getZxy and every decodeImage returns or throws, so the handler is
\* resumed after each await.
\* The requests are for tile (0, 0) of a source of 1 x 1 tiles in which
\* every address decodes, or none.
InitLive ==
    /\ Init
    /\ req.x = 0 /\ req.y = 0
    /\ world.width = 1 /\ world.height = 1
    /\ world.present \in {Region, {}}

\* ProcessTile is enabled exactly when its guard holds: it always changes pc.
ProcessTileEnabled == pc = "fetch" /\ Len(tiles) = 9

\* Weak fairness of ProcessTile, written out over its guard.
FairProcessTile == []<>(~ProcessTileEnabled) \/ []<><<ProcessTile>>_vars

LiveSpec ==
    /\ InitLive
    /\ [][Next]_vars
    /\ WF_vars(StartRequest)
    /\ WF_vars(FetchTileFound \/ FetchTileMissing)
    /\ FairProcessTile

\* C29: every tile request is eventually answered, with exactly one
\* response whose status is 200, 204, 404 or 500.
C29_EveryRequestIsAnswered ==
    <>(/\ pc = "done"
       /\ Len(res) = 1
       /\ res[1].status \in {200, 204, 404, 500})


(***************************************************************************)
(* Short rings: clipContoursToTile and encodeMVT each called on levels     *)
(* that hold rings of 0, 1, 2 and 5 points (server.js:397-419, 198-218),   *)
(* and the two chained as the handler chains them.                         *)
(***************************************************************************)
InitDrop ==
    /\ IdleHandler
    /\ pc = "call"
    /\ \E b \in 1..MaxBuffer :
         \E c1 \in SeqsUpTo(SamplePolygons(b), MaxPolygons),
            c2 \in SeqsUpTo(SamplePolygons(b), MaxPolygons) :
           call = [fn   |-> "clipContoursToTile, encodeMVT",
                   args |-> [contourFeatures |->
                               <<[type |-> "MultiPolygon", value |-> 10,
                                  coordinates |-> c1, isMajor |-> FALSE],
                                 [type |-> "MultiPolygon", value |-> 50,
                                  coordinates |-> c2, isMajor |-> TRUE]>>,
                             tileWidth |-> 2, tileHeight |-> 2, buffer |-> b,
                             z |-> 1, x |-> 0, y |-> 0],
                   ret  |-> null]

CallDrop ==
    /\ pc = "call"
    /\ call.fn = "clipContoursToTile, encodeMVT"
    /\ LET a == call.args
           clipped == clipContoursToTile(a.contourFeatures, a.tileWidth, a.tileHeight,
                                         a.buffer)
       IN  call' = [call EXCEPT !.ret =
                      [clipped |-> clipped,
                       encoded |-> encodeMVT(a.contourFeatures, a.tileWidth, a.tileHeight,
                                             a.z, a.x, a.y),
                       chained |-> encodeMVT(clipped, a.tileWidth, a.tileHeight,
                                             a.z, a.x, a.y)]]
    /\ pc' = "returned"
    /\ UNCHANGED handlerVars

SpecDrop == InitDrop /\ [][CallDrop]_vars

DropReturned == pc = "returned" /\ call.fn = "clipContoursToTile, encodeMVT"

\* The features are the rings, one LineString each, in order and with as
\* many points.
OneFeaturePerRing(features, rings) ==
    /\ Len(features) = Len(rings)
    /\ \A n \in 1..Len(features) :
         /\ Len(features[n].geometry) = 1
         /\ Len(features[n].geometry[1]) = Len(rings[n].ring)
         /\ Len(features[n].geometry[1]) >= 2
         /\ features[n].tags.ele = rings[n].value

\* C26: clipContoursToTile drops the rings of fewer than 2 points, the
\* polygons left without a ring and the levels left without a polygon, and
\* keeps every ring of at least 2 points; encodeMVT, on the same input and
\* on the output of clipContoursToTile, emits one feature per ring of at
\* least 2 points and none for a shorter ring, so that every feature has at
\* least 2 points.
C26_ShortRingsAreDropped ==
    DropReturned =>
        LET a == call.args
            rings == LineRings(a.contourFeatures)
        IN  /\ AddBuffer(call.ret.clipped, a.buffer) = WithoutShortRings(a.contourFeatures)
            /\ \A n \in 1..Len(call.ret.clipped) :
                 /\ Len(call.ret.clipped[n].coordinates) >= 1
                 /\ \A q \in 1..Len(call.ret.clipped[n].coordinates) :
                      /\ Len(call.ret.clipped[n].coordinates[q]) >= 1
                      /\ \A r \in 1..Len(call.ret.clipped[n].coordinates[q]) :
                           Len(call.ret.clipped[n].coordinates[q][r]) >= 2
            /\ Len(LineRings(call.ret.clipped)) = Len(rings)
            /\ OneFeaturePerRing(call.ret.encoded.features, rings)
            /\ OneFeaturePerRing(call.ret.chained.features, rings)

\* The minor level holds only rings of fewer than 2 points and is dropped;
\* the major level keeps its two long rings and loses the short ones.
C26_Witness ==
    /\ DropReturned
    /\ call.args.contourFeatures[1].coordinates = <<<<SampleRing1(call.args.buffer)>>>>
    /\ call.args.contourFeatures[2].coordinates
         = <<<<SampleRing0, SampleRing5(call.args.buffer), SampleRing1(call.args.buffer)>>,
             <<SampleRing2(call.args.buffer)>>>>
    /\ Len(call.ret.clipped) = 1
    /\ Len(call.ret.encoded.features) = 2
    /\ Len(call.ret.chained.features) = 2


(***************************************************************************)
(* The range of the encoded coordinates: clipContoursToTile and encodeMVT  *)
(* chained (server.js:522-530) on tiles wide enough for the buffer to be   *)
(* about 5% of the tile.                                                   *)
(***************************************************************************)
\* Tile sizes at which a buffer of 1 is exactly 5% of the tile and just
\* below, and at which a buffer of 2 is just below 5%.
WideSizes == {20, 21, 41}

InitWide ==
    /\ IdleHandler
    /\ pc = "call"
    /\ \E W \in WideSizes, b \in 1..MaxBuffer :
         \E c1 \in SeqsUpTo(EncodePolygons(W, W, b), MaxPolygons),
            c2 \in SeqsUpTo(EncodePolygons(W, W, b), MaxPolygons) :
           call = [fn   |-> "encodeMVT of a wide tile",
                   args |-> [contourFeatures |->
                               <<[type |-> "MultiPolygon", value |-> 10,
                                  coordinates |-> c1, isMajor |-> FALSE],
                                 [type |-> "MultiPolygon", value |-> 50,
                                  coordinates |-> c2, isMajor |-> TRUE]>>,
                             tileWidth |-> W, tileHeight |-> W, buffer |-> b,
                             z |-> 1, x |-> 0, y |-> 0],
                   ret  |-> null]

CallWide ==
    /\ pc = "call"
    /\ call.fn = "encodeMVT of a wide tile"
    /\ call' = [call EXCEPT !.ret =
                  encodeMVT(clipContoursToTile(call.args.contourFeatures,
                                               call.args.tileWidth, call.args.tileHeight,
                                               call.args.buffer),
                            call.args.tileWidth, call.args.tileHeight,
                            call.args.z, call.args.x, call.args.y)]
    /\ pc' = "returned"
    /\ UNCHANGED handlerVars

SpecWide == InitWide /\ [][CallWide]_vars

WideReturned == pc = "returned" /\ call.fn = "encodeMVT of a wide tile"

\* v / d rounded to the nearest integer, halves upwards: the integer next
\* to the quotient that is at most a half below v / d and less than a half
\* above.
Rounded(v, d) == CHOOSE t \in ((v \div d) - 1)..((v \div d) + 1) : IsRounded(t, v, d)

\* Every x and y of every point of every feature is between lo and hi.
CoordinatesWithin(lo, hi) ==
    \A n \in 1..Len(call.ret.features) :
      \A k \in 1..Len(call.ret.features[n].geometry[1]) :
        LET q == call.ret.features[n].geometry[1][k]
        IN  lo <= q[1] /\ q[1] <= hi /\ lo <= q[2] /\ q[2] <= hi

\* The coordinates pass the check of the validator: none is below
\* -0.05 * 4096 = -204.8 or above 1.05 * 4096 = 4300.8.
WithinTolerance ==
    \A n \in 1..Len(call.ret.features) :
      \A k \in 1..Len(call.ret.features[n].geometry[1]) :
        LET q == call.ret.features[n].geometry[1][k]
        IN  \A c \in 1..2 : -1024 <= 5 * q[c] /\ 5 * q[c] <= 21504

toLowerCase(part) ==
    IF part \in {".PMTILES", ".PmTiles"} THEN ".pmtiles" ELSE part

\* path.extname: the last part when it starts at a dot that is not the
\* first character of the name, '' otherwise.
extname(file) == IF Len(file) >= 2 THEN file[Len(file)] ELSE ""

\* path.basename(file, suffix): the name without the suffix when the name
\* ends with exactly the suffix and is longer than it.
basename(file, suffix) ==
    IF Len(file) >= 2 /\ file[Len(file)] = suffix
    THEN SubSeq(file, 1, Len(file) - 1)
    ELSE file

\* The entries of a directory, in the order readdir lists them.
DirectoryEntries ==
    << <<"a", ".pmtiles">>, <<"a", ".PMTILES">>, <<"a", ".PMTILES", ".pmtiles">>,
       <<"b", ".PmTiles">>, <<"b", ".txt">>, <<"b", ".pmtiles", ".txt">>,
       <<"notes">>, <<".pmtiles">> >>

\* Map.prototype.set on a Map kept as the sequence of its entries in
\* insertion order: the value of an existing key is replaced in place.
MapSet(map, key, value) ==
    IF \E k \in 1..Len(map) : map[k].name = key
    THEN [k \in 1..Len(map) |->
            IF map[k].name = key THEN [name |-> key, file |-> value] ELSE map[k]]
    ELSE Append(map, [name |-> key, file |-> value])

\* server.js:58-66: the loop over the accepted files.
RECURSIVE RegisterAll(_, _)
RegisterAll(map, pmtilesFiles) ==
    IF pmtilesFiles = <<>> THEN map
    ELSE RegisterAll(MapSet(map, basename(Head(pmtilesFiles), ".pmtiles"),
                            Head(pmtilesFiles)),
                     Tail(pmtilesFiles))

\* server.js:48: the files loadPMTiles accepts.
PmtilesFiles(files) ==
    LET IsPmtiles(file) == toLowerCase(extname(file)) = ".pmtiles"
    IN  SelectSeq(files, IsPmtiles)

InitLoad ==
    /\ IdleHandler
    /\ pc = "call"
    /\ \E D \in SUBSET (1..Len(DirectoryEntries)) :
         LET Listed(file) == \E k \in D : DirectoryEntries[k] = file
         IN  call = [fn   |-> "loadPMTiles",
                     args |-> [files |-> SelectSeq(DirectoryEntries, Listed)],
                     ret  |-> null]

\* server.js:46-69: the process exits when no file is accepted.
CallLoad ==
    /\ pc = "call"
    /\ call.fn = "loadPMTiles"
    /\ IF PmtilesFiles(call.args.files) = <<>>
       THEN pc' = "exited" /\ call' = call
       ELSE /\ pc' = "returned"
            /\ call' = [call EXCEPT !.ret = RegisterAll(<<>>, PmtilesFiles(call.args.files))]
    /\ UNCHANGED handlerVars

SpecLoad == InitLoad /\ [][CallLoad]_vars

LoadReturned == pc = "returned" /\ call.fn = "loadPMTiles"

\* The name of a file without its extension.
WithoutExtension(file) == SubSeq(file, 1, Len(file) - 1)

\* C24: every file whose extension is .pmtiles in any case is registered
\* under its filename without that extension, and the registry has as many
\* entries as there are such files.
C24_RegisteredWithoutExtension ==
    LoadReturned =>
        LET accepted == {call.args.files[k] : k \in
                           {n \in 1..Len(call.args.files) :
                              toLowerCase(extname(call.args.files[n])) = ".pmtiles"}}
        IN  /\ \A file \in accepted :
                 \E k \in 1..Len(call.ret) :
                   /\ call.ret[k].name = WithoutExtension(file)
                   /\ call.ret[k].file = file
            /\ Len(call.ret) = Cardinality(accepted)


(***************************************************************************)
(* The threshold loop of generateContours (server.js:154-161), iteration   *)
(* by iteration, for every value parseInt can give CONTOUR_INTERVAL        *)
(* (server.js:39).  A JavaScript number is NaN or an integer; an elevation *)
(* is a numerator over the scale S.                                        *)
(***************************************************************************)
NaN == [isNaN |-> TRUE]

Num(n) == [isNaN |-> FALSE, n |-> n]

\* Math.ceil(n / d) for an integer numerator and a denominator of either
\* sign, d # 0.
JsCeilDiv(n, d) == IF d > 0 THEN CeilDiv(n, d) ELSE CeilDiv(-n, -d)

\* server.js:156: Math.ceil(minEle / minInterval) * minInterval.  A division
\* by 0 gives an infinity or NaN, whose product with 0 is NaN.
JsMinorStart(minE, S, minInterval) ==
    IF minInterval.isNaN \/ minInterval.n = 0 THEN NaN
    ELSE Num(JsCeilDiv(minE, S * minInterval.n) * minInterval.n)

\* server.js:159: ele <= maxEle, false for NaN.
LoopCondition(ele, maxE, S) == ~ele.isNaN /\ ele.n * S <= maxE

\* server.js:159: ele += minInterval
JsAdd(a, b) == IF a.isNaN \/ b.isNaN THEN NaN ELSE Num(a.n + b.n)

InitLoop ==
    /\ IdleHandler
    /\ pc = "call"
    /\ \E minE \in (-2 * MaxMeters)..(2 * MaxMeters), maxE \in (-2 * MaxMeters)..(2 * MaxMeters),
          i \in {NaN} \cup {Num(n) : n \in (-MaxInterval)..MaxInterval} :
         /\ minE <= maxE
         /\ call = [fn   |-> "thresholds",
                    args |-> [minE |-> minE, maxE |-> maxE, S |-> 2, minInterval |-> i],
                    ret  |-> null,
                    ele  |-> NaN,
                    thresholds |-> <<>>]

\* server.js:155-159: thresholds = [], minorStart, and the loop's
\* initialisation.
LoopEnter ==
    /\ pc = "call"
    /\ call.fn = "thresholds"
    /\ call' = [call EXCEPT !.ele = JsMinorStart(call.args.minE, call.args.S,
                                                 call.args.minInterval),
                            !.thresholds = <<>>]
    /\ pc' = "loop"
    /\ UNCHANGED handlerVars

\* server.js:159-161: one iteration.  The model follows the loop for
\* MaxThresholds iterations.
LoopStep ==
    /\ pc = "loop"
    /\ LoopCondition(call.ele, call.args.maxE, call.args.S)
    /\ Len(call.thresholds) < MaxThresholds
    /\ call' = [call EXCEPT !.thresholds = Append(call.thresholds, call.ele.n),
                            !.ele = JsAdd(call.ele, call.args.minInterval)]
    /\ pc' = "loop"
    /\ UNCHANGED handlerVars

\* server.js:159: the condition is false and the loop ends.
LoopExit ==
    /\ pc = "loop"
    /\ ~LoopCondition(call.ele, call.args.maxE, call.args.S)
    /\ call' = [call EXCEPT !.ret = [thresholds |-> call.thresholds]]
    /\ pc' = "returned"
    /\ UNCHANGED handlerVars

NextLoop == LoopEnter \/ LoopStep \/ LoopExit

\* The loop runs in one turn of the event loop: an iteration that can be
\* taken is taken.
SpecLoop == InitLoop /\ [][NextLoop]_vars /\ WF_vars(NextLoop)

\* C30: the threshold loop ends, with a finite list of thresholds, for
\* every elevation range and for every CONTOUR_INTERVAL: positive, zero,
\* negative or NaN.
C30_ThresholdLoopTerminates ==
    <>(pc = "returned" /\ call.fn = "thresholds")


\* Under a negative interval the condition of the loop holds at every
\* iteration: the loop is not left, however many iterations are followed.
NegativeIntervalNeverExits ==
    (/\ pc = "loop" /\ call.fn = "thresholds"
     /\ ~call.args.minInterval.isNaN /\ call.args.minInterval.n < 0) =>
        /\ LoopCondition(call.ele, call.args.maxE, call.args.S)
        /\ call.ele.n * call.args.S <= call.args.minE


====
